---- MODULE Spec2Model ----
(***************************************************************************)
(* A model of the Amazon ECR resolver for containerd (package ecr):        *)
(* the resolver with its region-to-client cache (resolver.go), the image   *)
(* lookup shared by the fetcher and the pusher (base.go), and the layer    *)
(* writer driven by the layer writer tests.                                *)
(*                                                                         *)
(* Strings of the program are modelled by what the code reads of them: a   *)
(* reference string is a record of its segments with the object part as a  *)
(* sequence of tokens, a manifest body is the record of the fields the     *)
(* probe unmarshals plus its byte length, an error is a record of its      *)
(* cause and the message it was wrapped with.                              *)
(***************************************************************************)
EXTENDS Integers, Sequences, FiniteSets, TLC

\* ------------------------------------------------------------------ bounds

\* Calls (Resolve, Fetcher, Pusher) started on one resolver in a behaviour.
MaxCalls == 3

\* Longest layer a writer is given, in bytes.
MaxLayerLen == 32

\* Largest part size InitiateLayerUpload advertises.
MaxPartSize == 3

\* The goroutines calling into one resolver instance.
Threads == {"t1", "t2"}

Regions == {"us-west-2", "us-east-1"}

Min(a, b) == IF a < b THEN a ELSE b

\* ------------------------------------------------------------------ errors

Err(cause, msg) == [cause |-> cause, msg |-> msg]

NoErr == Err("nil", "")

ErrInvalid == Err("reference.ErrInvalid", "")

ErrObjectRequired == Err("reference.ErrObjectRequired", "")

ErrFailedPrecondition == "errdefs.ErrFailedPrecondition"

errImageNotFound == Err("ecr: image not found", "")

invalidARN == Err("ecr: invalid ARN", "")

\* errors.Wrap(cause, msg) of github.com/pkg/errors
Wrap(cause, msg) == Err(cause, msg)

\* errors.New(msg)
New(msg) == Err(msg, "")

\* The errors a registry call may fail with: arbitrary transport/API errors.
APIErrors == {Err("expected", ""), Err("RequestCanceled", "")}

\* ------------------------------------------------------------- media types

MediaTypeImageManifest == "application/vnd.oci.image.manifest.v1+json"

MediaTypeImageIndex == "application/vnd.oci.image.index.v1+json"

MediaTypeImageConfig == "application/vnd.oci.image.config.v1+json"

MediaTypeDockerSchema2Manifest == "application/vnd.docker.distribution.manifest.v2+json"

MediaTypeDockerSchema2ManifestList == "application/vnd.docker.distribution.manifest.list.v2+json"

MediaTypeDockerSchema2Config == "application/vnd.docker.container.image.v1+json"

MediaTypeDockerSchema1Manifest == "application/vnd.docker.distribution.manifest.v1+prettyjws"

mediaTypeDockerSchema1ManifestUnsigned == "application/vnd.docker.distribution.manifest.v1+json"

\* The manifest media types the resolver asks the registry for.
supportedImageMediaTypes ==
    << MediaTypeDockerSchema2Manifest,
       MediaTypeDockerSchema2ManifestList,
       MediaTypeImageManifest,
       MediaTypeImageIndex,
       MediaTypeDockerSchema1Manifest >>

\* -------------------------------------------------------------- references

Digests == {"sha256:d1", "sha256:d2"}

\* A reference string "<prefix><arn>[:<tag>][@<digest>]", by its segments.
RefString(prefix, region, account, repo, object) ==
    [prefix |-> prefix, region |-> region, account |-> account,
     repo |-> repo, object |-> object]

\* The empty string.
NoRef == RefString("", "", "", "", <<>>)

FakeRefWithObject(region, object) ==
    RefString("ecr.aws/", region, "123456789012", "foo/bar", object)

\* The reference strings callers pass in.
RefStrings ==
    { RefString("docker.io/", "us-west-2", "123456789012", "foo/bar", <<":", "latest">>),
      FakeRefWithObject("us-west-2", <<>>),
      FakeRefWithObject("us-west-2", <<":", "latest">>),
      FakeRefWithObject("us-west-2", <<"@", "sha256:d1">>),
      FakeRefWithObject("us-west-2", <<":", "latest", "@", "sha256:d1">>),
      FakeRefWithObject("us-east-1", <<":", "latest", "@", "sha256:d2">>) }

\* ECRSpec: the parsed reference.
ECRSpec(region, account, repo, object) ==
    [region |-> region, account |-> account, repo |-> repo, object |-> object]

NoSpec == ECRSpec("", "", "", <<>>)

\* ParseRef: the prefix and the ARN segments must be well-formed; the object
\* keeps its "@" and loses its leading ":".
ParseRef(s) ==
    IF s.prefix # "ecr.aws/" \/ s.region = "" \/ s.account = "" \/ s.repo = ""
    THEN [spec |-> NoSpec, err |-> invalidARN]
    ELSE [spec |-> ECRSpec(s.region, s.account, s.repo,
                           IF s.object # <<>> /\ Head(s.object) = ":"
                           THEN Tail(s.object) ELSE s.object),
          err |-> NoErr]

\* Position of the first "@" of an object, 0 when there is none.
RECURSIVE AtIndex(_, _)
AtIndex(obj, i) ==
    IF i > Len(obj) THEN 0
    ELSE IF obj[i] = "@" THEN i
    ELSE AtIndex(obj, i + 1)

\* Concatenation of the tokens of an object part ("" for none).
ObjText(toks) ==
    IF toks = <<>> THEN "" ELSE toks[1]

\* ECRSpec.TagDigest: the object split after its first "@", the tag without
\* that "@".
TagDigest(spec) ==
    LET at == AtIndex(spec.object, 1) IN
    IF at = 0
    THEN [tag |-> ObjText(spec.object), digest |-> ""]
    ELSE [tag |-> ObjText(SubSeq(spec.object, 1, at - 1)),
          digest |-> ObjText(SubSeq(spec.object, at + 1, Len(spec.object)))]

\* ECRSpec.Spec().Digest()
SpecDigest(spec) == TagDigest(spec).digest

\* ECRSpec.ImageID: the tag and the digest that are present.
ImageID(spec) ==
    [tag |-> TagDigest(spec).tag, digest |-> TagDigest(spec).digest]

\* A canonical string that names the tag alone.
CanonicalTagOnly(spec) ==
    RefString("ecr.aws/", spec.region, spec.account, spec.repo,
              IF TagDigest(spec).tag = "" THEN <<>>
              ELSE <<":", TagDigest(spec).tag>>)

\* ECRSpec.Canonical: the reference string of the parsed reference.
Canonical(spec) ==
    RefString("ecr.aws/", spec.region, spec.account, spec.repo,
              IF spec.object = <<>> \/ Head(spec.object) = "@"
              THEN spec.object ELSE <<":">> \o spec.object)

\* -------------------------------------------------------- manifest sniffer

\* manifestProbe: what json.Unmarshal reads of a manifest body, with the
\* body's byte length.  json is FALSE for a body that does not parse.
Manifest(json, schemaVersion, mediaType, signatures, manifests, config, size) ==
    [json |-> json, schemaVersion |-> schemaVersion, mediaType |-> mediaType,
     signatures |-> signatures, manifests |-> manifests, config |-> config,
     size |-> size]

\* The media type the child manifests decide: the first child of a known
\* type wins, an index of unknown children is an OCI index.
RECURSIVE ManifestsMediaType(_, _)
ManifestsMediaType(manifests, i) ==
    IF i > Len(manifests) THEN MediaTypeImageIndex
    ELSE IF manifests[i] = MediaTypeImageManifest THEN MediaTypeImageIndex
    ELSE IF manifests[i] = MediaTypeDockerSchema2Manifest
         THEN MediaTypeDockerSchema2ManifestList
    ELSE ManifestsMediaType(manifests, i + 1)

\* A sniffer that does not defer to the declared type.
parseImageManifestMediaTypeUndeclared(body) ==
    IF ~body.json THEN MediaTypeDockerSchema2Manifest
    ELSE IF body.schemaVersion = 2
         THEN IF body.config = MediaTypeDockerSchema2Config
              THEN MediaTypeDockerSchema2Manifest
              ELSE IF body.config = MediaTypeImageConfig
              THEN MediaTypeImageManifest
              ELSE IF Len(body.manifests) = 0
              THEN MediaTypeImageManifest
              ELSE ManifestsMediaType(body.manifests, 1)
    ELSE IF body.schemaVersion = 1
         THEN IF Len(body.signatures) # 0
              THEN MediaTypeDockerSchema1Manifest
              ELSE mediaTypeDockerSchema1ManifestUnsigned
    ELSE ""

\* A sniffer without the single-image case.
parseImageManifestMediaTypeNoSingle(body) ==
    IF ~body.json THEN MediaTypeDockerSchema2Manifest
    ELSE IF body.mediaType # "" THEN body.mediaType
    ELSE IF body.schemaVersion = 2
         THEN IF body.config = MediaTypeDockerSchema2Config
              THEN MediaTypeDockerSchema2Manifest
              ELSE IF body.config = MediaTypeImageConfig
              THEN MediaTypeImageManifest
              ELSE ManifestsMediaType(body.manifests, 1)
    ELSE IF body.schemaVersion = 1
         THEN IF Len(body.signatures) # 0
              THEN MediaTypeDockerSchema1Manifest
              ELSE mediaTypeDockerSchema1ManifestUnsigned
    ELSE ""

parseImageManifestMediaType(body) ==
    IF ~body.json THEN MediaTypeDockerSchema2Manifest
    ELSE IF body.mediaType # "" THEN body.mediaType
    ELSE IF body.schemaVersion = 2
         THEN IF body.config = MediaTypeDockerSchema2Config
              THEN MediaTypeDockerSchema2Manifest
              ELSE IF body.config = MediaTypeImageConfig
              THEN MediaTypeImageManifest
              ELSE IF Len(body.manifests) = 0
              THEN MediaTypeImageManifest
              ELSE ManifestsMediaType(body.manifests, 1)
    ELSE IF body.schemaVersion = 1
         THEN IF Len(body.signatures) # 0
              THEN MediaTypeDockerSchema1Manifest
              ELSE mediaTypeDockerSchema1ManifestUnsigned
    ELSE ""

\* testdata.OCIImageIndex
OCIImageIndexSample ==
    Manifest(TRUE, 2, "", <<>>, <<MediaTypeImageManifest, MediaTypeImageManifest>>, "", 40)

\* testdata.EmptySample: {"updog": "whats"}
EmptySample == Manifest(TRUE, 0, "", <<>>, <<>>, "", 22)

\* A manifest declaring a media type the resolver did not ask for.
ForeignTypeSample == Manifest(TRUE, 2, "text/plain", <<>>, <<>>, "", 30)

\* A schema 1 manifest without signatures.
Schema1UnsignedSample == Manifest(TRUE, 1, "", <<>>, <<>>, "", 35)

\* A body that is not JSON.
UnparsableSample == Manifest(FALSE, 0, "", <<>>, <<>>, "", 7)

ManifestSamples ==
    {OCIImageIndexSample, EmptySample, ForeignTypeSample,
     Schema1UnsignedSample, UnparsableSample}

\* ------------------------------------------------------------------- state

VARIABLES
    \* ecrResolver.clients: region -> client (a client is its identity)
    clients,
    \* ecrResolver.clientsLock: the thread holding it, "" when free
    clientsLock,
    \* per region, the clients ecrsdk.New has constructed for it so far
    created,
    \* calls started so far
    ncalls,
    \* per thread: where it is in its call
    pc,
    \* per thread: the entry point it called ("Resolve", "Fetcher", "Pusher")
    op,
    \* per thread: the reference string it was called with
    ref,
    \* per thread: the parsed reference (ecrSpec)
    ecrSpec,
    \* per thread: getClient's lookup result (ok of r.clients[region])
    found,
    \* per thread: the client getClient returned, 0 before it returned
    client,
    \* per thread: the registry calls made in this call, in order
    apiLog,
    \* per thread: the reply of the registry to BatchGetImage
    reply,
    \* per thread: what the call returned
    result,
    \* the layer writer: "none" before it is constructed, "failed" when its
    \* construction failed, "open" once it exists
    lw,
    \* what the caller of the writer is doing: "ready", "writing" (inside
    \* Write), "committing" (inside Commit), "done" (Commit returned)
    caller,
    \* the bytes the caller has passed to Write so far
    written,
    \* the bytes in the pipe: written and not yet read by the uploader
    pipe,
    \* the write side of the pipe is closed
    pipeClosed,
    \* the uploader goroutine: "none", "running", "done", "failed"
    proc,
    \* the part the uploader is filling
    chunk,
    \* the uploader's cursor: the offset of the first byte of the next part
    offset,
    \* lw.ctx is cancelled
    ctxDone,
    \* the calls made to the registry client, in order
    calls,
    \* the status record of the writer's reference key in the tracker
    status,
    \* what Write and Commit last returned
    ret

resolverVars ==
    << clients, clientsLock, created, ncalls, pc, op, ref, ecrSpec, found,
       client, apiLog, reply, result >>

writerVars ==
    << lw, caller, written, pipe, pipeClosed, proc, chunk, offset, ctxDone,
       calls, status, ret >>

VARIABLES
    \* the ecrFetcher: whether it exists, its ecrSpec and its parallelism
    fetcher,
    \* where the Fetch call is: "ready" before it, "url" between the
    \* download-URL lookup and the download, "returned" after it
    fpc,
    \* the descriptor Fetch was called with
    fdesc,
    \* the caller's context is cancelled
    fctx,
    \* the calls Fetch made on the registry client, in order, with the answers
    flog,
    \* the HTTP requests made, in order, with their outcomes
    fhttp,
    \* what Fetch returned: the error and the stream
    fret,
    \* the length of the layer the download URL serves
    payload,
    \* the length of the byte ranges the parallel download asks for
    fragSize,
    \* per byte range of the parallel download: "todo", "fetching", "done",
    \* "written" or "failed"
    frags,
    \* the goroutine running htc.WriteTo: "none", "running", "returned"
    hproc,
    \* the bytes written to the pipe and not yet read
    fpipe,
    \* the write side of the pipe is closed
    fclosed,
    \* the bytes the reader of the returned stream has read, in order
    delivered,
    \* how the stream ended for its reader: "" (not yet), "EOF", "error"
    fend

fetcherVars ==
    << fetcher, fpc, fdesc, fctx, flog, fhttp, fret, payload, fragSize,
       frags, hproc, fpipe, fclosed, delivered, fend >>

VARIABLES
    \* the ecrPusher: whether it exists, and its ecrSpec
    pusher,
    \* where the Push call is: "none" without pusher, "ready" before the
    \* call, "returned" after it
    ppc,
    \* the descriptor Push was called with
    pdesc,
    \* the context the caller passes to Push and to Commit is cancelled
    pctx,
    \* the existence checks Push made on the registry client, in order, with
    \* the answers
    plog,
    \* what Push returned: the error and the writer
    pret,
    \* the manifest writer: whether it is open, the tag it registers under,
    \* the bytes buffered, and what its Commit returned
    mw

pusherVars == << pusher, ppc, pdesc, pctx, plog, pret, mw >>

VARIABLES
    \* the manifest body handed to parseImageManifestMediaType
    probe,
    \* whether the body has a "mediaType" member, which the probe does not
    \* keep apart from an empty one
    declared,
    \* what parseImageManifestMediaType returned for it, "unset" before
    sniffedType,
    \* the reference string handed to ParseRef
    rs,
    \* how far the reference went: "none", "string", "parsed", "canonical",
    \* "reparsed"
    rstage,
    \* what ParseRef returned for the string
    rparsed,
    \* the canonical string of the parsed reference
    rcanon,
    \* what ParseRef returned for the canonical string
    rreparsed

snifferVars == << probe, declared, sniffedType >>

refVars == << rs, rstage, rparsed, rcanon, rreparsed >>

vars == << resolverVars, writerVars, fetcherVars, pusherVars, snifferVars, refVars >>

\* What the actions of one component leave alone of the others.
exceptResolver == << writerVars, fetcherVars, pusherVars, snifferVars, refVars >>

exceptWriter == << resolverVars, fetcherVars, pusherVars, snifferVars, refVars >>

exceptFetcher == << resolverVars, writerVars, pusherVars, snifferVars, refVars >>

exceptSniffer == << resolverVars, writerVars, fetcherVars, pusherVars, refVars >>

exceptRef == << resolverVars, writerVars, fetcherVars, pusherVars, snifferVars >>

\* The pusher and its writers share the tracker and the client calls of the
\* layer writer.
exceptPusher == << resolverVars, fetcherVars, snifferVars, refVars >>

\* ocispec.Descriptor
Descriptor(digest, mediaType, size) ==
    [digest |-> digest, mediaType |-> mediaType, size |-> size]

EmptyDescriptor == Descriptor("", "", 0)

\* What an entry point returns: a reference and a descriptor (Resolve), an
\* object (a fetcher or a pusher, "" for nil) and an error.
Result(r, desc, obj, err) ==
    [ref |-> r, desc |-> desc, obj |-> obj, err |-> err]

NoResult == Result(NoRef, EmptyDescriptor, "", NoErr)

\* ecr.Image: the digest of its ImageId and its ImageManifest.
Image(digest, manifest) == [digest |-> digest, manifest |-> manifest]

\* What BatchGetImageWithContext returns: an error, or an output with its
\* Images and the FailureCodes of its Failures.
Reply(err, images, failures) ==
    [err |-> err, images |-> images, failures |-> failures]

NoReply == Reply(NoErr, <<>>, <<>>)

\* The client a test seeds the cache with (resolver_test.go: fakeClient).
FakeClient == 100

\* NewResolver starts with an empty cache; the tests seed one region.
InitResolver ==
    /\ clients \in {[r \in {} |-> 0], [r \in {"us-west-2"} |-> FakeClient]}
    /\ clientsLock = ""
    /\ created = [r \in Regions |-> 0]
    /\ ncalls = 0
    /\ pc = [t \in Threads |-> "idle"]
    /\ op = [t \in Threads |-> ""]
    /\ ref = [t \in Threads |-> NoRef]
    /\ ecrSpec = [t \in Threads |-> NoSpec]
    /\ found = [t \in Threads |-> FALSE]
    /\ client = [t \in Threads |-> 0]
    /\ apiLog = [t \in Threads |-> <<>>]
    /\ reply = [t \in Threads |-> NoReply]
    /\ result = [t \in Threads |-> NoResult]

\* A call starts: the thread's locals are fresh.
Enter(t, o, s, spec, next, res) ==
    /\ pc[t] = "idle"
    /\ ncalls < MaxCalls
    /\ ncalls' = ncalls + 1
    /\ pc' = [pc EXCEPT ![t] = next]
    /\ op' = [op EXCEPT ![t] = o]
    /\ ref' = [ref EXCEPT ![t] = s]
    /\ ecrSpec' = [ecrSpec EXCEPT ![t] = spec]
    /\ result' = [result EXCEPT ![t] = res]
    /\ UNCHANGED << clients, clientsLock, created, found, client, apiLog, reply >>
    /\ UNCHANGED exceptResolver

\* ---------------------------------------------------------------- getClient

\* Lock() that never waits: getClient without mutual exclusion.
LockNeverWaits(t) == TRUE

\* r.clientsLock.Lock() returns once no other thread holds the lock.
LockAvailable(t) == clientsLock = ""

GetClientLock(t) ==
    /\ pc[t] = "getClient"
    /\ LockAvailable(t)
    /\ clientsLock' = t
    /\ pc' = [pc EXCEPT ![t] = "lookup"]
    /\ UNCHANGED << clients, created, ncalls, op, ref, ecrSpec, found, client,
                    apiLog, reply, result >>
    /\ UNCHANGED exceptResolver

\* _, ok := r.clients[region]
GetClientLookup(t) ==
    /\ pc[t] = "lookup"
    /\ found' = [found EXCEPT ![t] = ecrSpec[t].region \in DOMAIN clients]
    /\ pc' = [pc EXCEPT ![t] = "store"]
    /\ UNCHANGED << clients, clientsLock, created, ncalls, op, ref, ecrSpec,
                    client, apiLog, reply, result >>
    /\ UNCHANGED exceptResolver

\* The identity of the n-th client constructed for a region.
NewClient(region, n) == IF region = "us-west-2" THEN n ELSE 10 + n

\* if !ok { r.clients[region] = ecrsdk.New(...) }
GetClientStore(t) ==
    LET region == ecrSpec[t].region IN
    /\ pc[t] = "store"
    /\ IF found[t]
       THEN UNCHANGED << clients, created >>
       ELSE /\ created' = [created EXCEPT ![region] = @ + 1]
            /\ clients' = [r \in DOMAIN clients \cup {region} |->
                             IF r = region
                             THEN NewClient(region, created[region] + 1)
                             ELSE clients[r]]
    /\ pc' = [pc EXCEPT ![t] = "unlock"]
    /\ UNCHANGED << clientsLock, ncalls, op, ref, ecrSpec, found, client,
                    apiLog, reply, result >>
    /\ UNCHANGED exceptResolver

\* return r.clients[region], then the deferred Unlock
GetClientReturn(t) ==
    /\ pc[t] = "unlock"
    /\ client' = [client EXCEPT ![t] = clients[ecrSpec[t].region]]
    /\ clientsLock' = IF clientsLock = t THEN "" ELSE clientsLock
    /\ pc' = [pc EXCEPT ![t] = "gotClient"]
    /\ UNCHANGED << clients, created, ncalls, op, ref, ecrSpec, found, apiLog,
                    reply, result >>
    /\ UNCHANGED exceptResolver

\* ------------------------------------------------------------------ Resolve

\* ecr.BatchGetImageInput
BatchGetImageInput(registryId, repository, imageIds, accepted) ==
    [registryId |-> registryId, repository |-> repository,
     imageIds |-> imageIds, accepted |-> accepted]

\* The input Resolve builds from the parsed reference.
ResolveInput(spec) ==
    BatchGetImageInput(spec.account, spec.repo, <<ImageID(spec)>>,
                       supportedImageMediaTypes)

\* The replies of the registry to a BatchGetImage.
ImageFailureCodes ==
    {"ImageNotFound", "ImageTagDoesNotMatchDigest", "InvalidImageDigest"}

Replies ==
    { Reply(e, <<>>, <<>>) : e \in APIErrors }
    \cup { Reply(NoErr, <<>>, <<>>) }
    \cup { Reply(NoErr, <<>>, <<c>>) : c \in ImageFailureCodes }
    \cup { Reply(NoErr, <<Image(d, m)>>, <<>>) : d \in Digests, m \in ManifestSamples }
    \cup { Reply(NoErr, <<Image("sha256:d1", OCIImageIndexSample),
                          Image("sha256:d2", EmptySample)>>, <<>>) }

\* Resolve before its registry call: the reference must parse and name an
\* object.
ResolveReject(s) ==
    IF ParseRef(s).err # NoErr THEN ParseRef(s).err
    ELSE IF ParseRef(s).spec.object = <<>> THEN ErrObjectRequired
    ELSE NoErr

CallResolve(t, s) ==
    IF ResolveReject(s) # NoErr
    THEN Enter(t, "Resolve", s, ParseRef(s).spec, "done",
               Result(NoRef, EmptyDescriptor, "", ResolveReject(s)))
    ELSE Enter(t, "Resolve", s, ParseRef(s).spec, "getClient", NoResult)

\* The error of the registry call wrapped with context.
ResolveOnErrorWrapped(e) ==
    Result(NoRef, EmptyDescriptor, "", Wrap(e.cause, "BatchGetImage failed"))

\* The BatchGetImage call failed with e.
ResolveOnError(e) == Result(NoRef, EmptyDescriptor, "", e)

\* An empty reply reported as a missing image.
ResolveNoImageAsNotFound == Result(NoRef, EmptyDescriptor, "", errImageNotFound)

\* The reply holds no image.
ResolveNoImage == Result(NoRef, EmptyDescriptor, "", ErrInvalid)

\* The loop over the accepted media types: it passes at the first equal
\* entry and fails after the last one.
RECURSIVE MediaTypeRejectedFrom(_, _, _)
MediaTypeRejectedFrom(mediaType, accepted, i) ==
    IF i > Len(accepted) THEN FALSE
    ELSE IF mediaType = accepted[i] THEN FALSE
    ELSE IF i = Len(accepted) THEN TRUE
    ELSE MediaTypeRejectedFrom(mediaType, accepted, i + 1)

\* The loop with its last-entry test off by one: it never fails.
MediaTypeNeverRejected(mediaType, accepted) == FALSE

MediaTypeRejected(mediaType, accepted) ==
    MediaTypeRejectedFrom(mediaType, accepted, 1)

\* The digest assertion left out.
DigestNeverChecked(expectedDigest, resolved) == FALSE

\* The digest of the reference, when it has one, must be the resolved one.
DigestMismatch(expectedDigest, resolved) ==
    expectedDigest # "" /\ resolved # expectedDigest

errMediaType ==
    Wrap(ErrFailedPrecondition, "resolved mediaType not in accepted types")

errDigestMismatch ==
    Wrap(ErrFailedPrecondition, "resolved image digest mismatch")

\* The descriptor built without its Size field.
ResolveDescriptorNoSize(ecrImage, mediaType) ==
    Descriptor(ecrImage.digest, mediaType, 0)

\* desc := ocispec.Descriptor{Digest, MediaType, Size} of the first image.
ResolveDescriptor(ecrImage, mediaType) ==
    Descriptor(ecrImage.digest, mediaType, ecrImage.manifest.size)

\* Resolve after its registry call.
ResolveReply(spec, input, rep) ==
    IF rep.err # NoErr THEN ResolveOnError(rep.err)
    ELSE IF Len(rep.images) = 0 THEN ResolveNoImage
    ELSE LET ecrImage == rep.images[1]
             mediaType == parseImageManifestMediaType(ecrImage.manifest)
             desc == ResolveDescriptor(ecrImage, mediaType)
         IN  IF MediaTypeRejected(mediaType, input.accepted)
             THEN Result(NoRef, EmptyDescriptor, "", errMediaType)
             ELSE IF DigestMismatch(SpecDigest(spec), desc.digest)
             THEN Result(NoRef, EmptyDescriptor, "", errDigestMismatch)
             ELSE Result(Canonical(spec), desc, "", NoErr)

\* A registry call as the fake client sees it.
APICall(name, cl, input) == [name |-> name, client |-> cl, input |-> input]

\* client.BatchGetImageWithContext and the rest of Resolve.
ResolveBatchGetImage(t, rep) ==
    /\ pc[t] = "gotClient"
    /\ op[t] = "Resolve"
    /\ apiLog' = [apiLog EXCEPT ![t] =
                    Append(@, APICall("BatchGetImage", client[t], ResolveInput(ecrSpec[t])))]
    /\ reply' = [reply EXCEPT ![t] = rep]
    /\ result' = [result EXCEPT ![t] =
                    ResolveReply(ecrSpec[t], ResolveInput(ecrSpec[t]), rep)]
    /\ pc' = [pc EXCEPT ![t] = "done"]
    /\ UNCHANGED << clients, clientsLock, created, ncalls, op, ref, ecrSpec,
                    found, client >>
    /\ UNCHANGED exceptResolver

\* ------------------------------------------------------------------ Fetcher

CallFetcher(t, s) ==
    IF ParseRef(s).err # NoErr
    THEN Enter(t, "Fetcher", s, NoSpec, "done",
               Result(NoRef, EmptyDescriptor, "", ParseRef(s).err))
    ELSE Enter(t, "Fetcher", s, ParseRef(s).spec, "getClient", NoResult)

\* return &ecrFetcher{...}, nil
FetcherReturn(t) ==
    /\ pc[t] = "gotClient"
    /\ op[t] = "Fetcher"
    /\ result' = [result EXCEPT ![t] = Result(NoRef, EmptyDescriptor, "ecrFetcher", NoErr)]
    /\ pc' = [pc EXCEPT ![t] = "done"]
    /\ UNCHANGED << clients, clientsLock, created, ncalls, op, ref, ecrSpec,
                    found, client, apiLog, reply >>
    /\ UNCHANGED exceptResolver

\* ------------------------------------------------------------------- Pusher

errPushByDigest == New("pusher: cannot use digest reference for push location")

errRootDescriptorMissing == New("pusher: root descriptor missing from push reference")

\* Pusher's checks without the rule against digest-only references.
PusherCheckRootOnly(spec) ==
    IF TagDigest(spec).digest = "" THEN errRootDescriptorMissing ELSE NoErr

\* The checks of Pusher on the tag and the digest of the parsed reference.
PusherCheck(spec) ==
    LET tag == TagDigest(spec).tag
        digest == TagDigest(spec).digest
    IN  IF tag = "" /\ digest # "" THEN errPushByDigest
        ELSE IF digest = "" THEN errRootDescriptorMissing
        ELSE NoErr

\* Pusher before getClient: the error it returns right away, if any.
PusherReject(s) ==
    IF ParseRef(s).err # NoErr THEN ParseRef(s).err
    ELSE PusherCheck(ParseRef(s).spec)

\* Pusher constructing its client before it looks at the check's error.
PusherNextClientFirst(err) == "getClient"

\* Where Pusher goes once the reference is parsed and checked: a rejected
\* call returns, the others construct the pusher with getClient.
PusherNext(err) == IF err # NoErr THEN "done" ELSE "getClient"

CallPusher(t, s) ==
    Enter(t, "Pusher", s, ParseRef(s).spec, PusherNext(PusherReject(s)),
          Result(NoRef, EmptyDescriptor, "", PusherReject(s)))

\* return &ecrPusher{...}, nil
PusherReturn(t) ==
    /\ pc[t] = "gotClient"
    /\ op[t] = "Pusher"
    /\ result' = [result EXCEPT ![t] =
                    IF @.err # NoErr THEN @
                    ELSE Result(NoRef, EmptyDescriptor, "ecrPusher", NoErr)]
    /\ pc' = [pc EXCEPT ![t] = "done"]
    /\ UNCHANGED << clients, clientsLock, created, ncalls, op, ref, ecrSpec,
                    found, client, apiLog, reply >>
    /\ UNCHANGED exceptResolver

\* The caller takes the result; the thread's locals are gone and it is free
\* for its next call.
Return(t) ==
    /\ pc[t] = "done"
    /\ pc' = [pc EXCEPT ![t] = "idle"]
    /\ op' = [op EXCEPT ![t] = ""]
    /\ ref' = [ref EXCEPT ![t] = NoRef]
    /\ ecrSpec' = [ecrSpec EXCEPT ![t] = NoSpec]
    /\ found' = [found EXCEPT ![t] = FALSE]
    /\ client' = [client EXCEPT ![t] = 0]
    /\ apiLog' = [apiLog EXCEPT ![t] = <<>>]
    /\ reply' = [reply EXCEPT ![t] = NoReply]
    /\ result' = [result EXCEPT ![t] = NoResult]
    /\ UNCHANGED << clients, clientsLock, created, ncalls >>
    /\ UNCHANGED exceptResolver

NextResolver ==
    \E t \in Threads :
        \/ \E s \in RefStrings : CallResolve(t, s)
        \/ \E s \in RefStrings : CallFetcher(t, s)
        \/ \E s \in RefStrings : CallPusher(t, s)
        \/ GetClientLock(t)
        \/ GetClientLookup(t)
        \/ GetClientStore(t)
        \/ GetClientReturn(t)
        \/ \E rep \in Replies : ResolveBatchGetImage(t, rep)
        \/ FetcherReturn(t)
        \/ PusherReturn(t)
        \/ Return(t)

\* ------------------------------------------------------------- layer writer

\* The layer the caller writes: byte i of it (positions from 1).
LayerByte(i) == (i * 37) % 256

LayerBytes(from, to) == [i \in 1..(to - from + 1) |-> LayerByte(from + i - 1)]

\* layerWriter: whether it exists, the part size InitiateLayerUpload gave,
\* and whether it has a tracker.
LayerWriter(state, partSize, tracker) ==
    [state |-> state, partSize |-> partSize, tracker |-> tracker]

\* docker.Status of the writer's reference key.
Status(started, updated, off, failed) ==
    [started |-> started, updated |-> updated, offset |-> off, failed |-> failed]

\* A call on the registry client: its name, for UploadLayerPart the
\* PartFirstByte, PartLastByte and LayerPartBlob of its input, and what the
\* client answered ("nil" or the error).
ClientCall(name, first, last, blob, answer) ==
    [name |-> name, first |-> first, last |-> last, blob |-> blob,
     answer |-> answer]

InitiateLayerUpload(e) == ClientCall("InitiateLayerUpload", 0, 0, <<>>, e.cause)

\* The last byte of a part of n bytes that starts at first.
PartLastByte(first, n) == first + n - 1

UploadLayerPart(first, blob, e) ==
    ClientCall("UploadLayerPart", first, PartLastByte(first, Len(blob)), blob, e.cause)

CompleteLayerUpload(outcome) ==
    ClientCall("CompleteLayerUpload", 0, 0, <<>>, outcome)

errVerifyDigest == New("ecr: failed to verify digest")

InitWriter ==
    /\ lw = LayerWriter("none", 0, FALSE)
    /\ caller = "ready"
    /\ written = 0
    /\ pipe = <<>>
    /\ pipeClosed = FALSE
    /\ proc = "none"
    /\ chunk = <<>>
    /\ offset = 0
    /\ ctxDone = FALSE
    /\ calls = <<>>
    /\ status = Status(FALSE, FALSE, 0, FALSE)
    /\ ret = NoErr

\* ------------------------------------------------------------------ fetcher

MediaTypeDockerSchema2Layer == "application/vnd.docker.image.rootfs.diff.tar"

MediaTypeDockerSchema2LayerGzip == "application/vnd.docker.image.rootfs.diff.tar.gzip"

MediaTypeDockerSchema2LayerForeign == "application/vnd.docker.image.rootfs.foreign.diff.tar"

MediaTypeDockerSchema2LayerForeignGzip ==
    "application/vnd.docker.image.rootfs.foreign.diff.tar.gzip"

MediaTypeImageLayer == "application/vnd.oci.image.layer.v1.tar"

MediaTypeImageLayerGzip == "application/vnd.oci.image.layer.v1.tar+gzip"

\* The cases of the switch of Fetch.
FetchManifestTypes ==
    { MediaTypeImageManifest, MediaTypeImageIndex, MediaTypeDockerSchema1Manifest,
      MediaTypeDockerSchema2Manifest, MediaTypeDockerSchema2ManifestList }

\* The layer case of the switch taking the empty media type as well.
FetchLayerTypesAndEmpty ==
    { MediaTypeDockerSchema2Layer, MediaTypeDockerSchema2LayerGzip,
      MediaTypeDockerSchema2Config, MediaTypeImageLayerGzip,
      MediaTypeImageLayer, MediaTypeImageConfig, "" }

FetchLayerTypes ==
    { MediaTypeDockerSchema2Layer, MediaTypeDockerSchema2LayerGzip,
      MediaTypeDockerSchema2Config, MediaTypeImageLayerGzip,
      MediaTypeImageLayer, MediaTypeImageConfig }

FetchForeignTypes ==
    { MediaTypeDockerSchema2LayerForeign, MediaTypeDockerSchema2LayerForeignGzip }

unimplemented == New("unimplemented")

ErrNotFound == "errdefs.ErrNotFound"

\* What a call that takes the context returns once the context is cancelled.
ErrCanceled == Err("RequestCanceled", "")

\* An ocispec.Descriptor with its URLs.
DescriptorWithURLs(digest, mediaType, urls) ==
    [digest |-> digest, mediaType |-> mediaType, size |-> 0, urls |-> urls]

\* No manifest: the body of no stream.
NoManifest == Manifest(FALSE, 0, "", <<>>, <<>>, "", 0)

\* What Fetch returns: the error and the stream ("none" for nil, "manifest"
\* for the in-memory reader over the manifest, "body" for the response body,
\* "pipe" for the read side of the pipe), with the manifest the in-memory
\* reader is over.
FetchResult(err, stream, manifest) ==
    [err |-> err, stream |-> stream, manifest |-> manifest]

NoFetchResult == FetchResult(NoErr, "none", NoManifest)

\* ecrFetcher{ecrBase{client, ecrSpec}, parallelism}
Fetcher(state, spec, parallelism) ==
    [state |-> state, spec |-> spec, parallelism |-> parallelism]

\* A call on the registry client made by Fetch: its input and its answer.
FetcherCall(name, input, answer) ==
    [name |-> name, input |-> input, answer |-> answer]

\* An HTTP request: its URL, the byte range it asks for (0, -1 for the whole
\* body), whether it carries the context, and its outcome.
HTTPRequest(url, first, last, withCtx, outcome) ==
    [url |-> url, first |-> first, last |-> last, withCtx |-> withCtx,
     outcome |-> outcome]

InitFetcher ==
    /\ fetcher = Fetcher("none", NoSpec, 0)
    /\ fpc = "none"
    /\ fdesc = DescriptorWithURLs("", "", <<>>)
    /\ fctx = FALSE
    /\ flog = <<>>
    /\ fhttp = <<>>
    /\ fret = NoFetchResult
    /\ payload = 0
    /\ fragSize = 0
    /\ frags = <<>>
    /\ hproc = "none"
    /\ fpipe = <<>>
    /\ fclosed = FALSE
    /\ delivered = <<>>
    /\ fend = ""

\* ------------------------------------------------------------------- pusher

ErrAlreadyExists == "errdefs.ErrAlreadyExists"

errLayerNotFound == Err("ecr: layer not found", "")

\* The media types Push opens a manifest writer for.
PushManifestTypes ==
    { supportedImageMediaTypes[i] : i \in 1..Len(supportedImageMediaTypes) }

\* The media types Push opens a layer writer for.
PushBlobTypes ==
    { MediaTypeDockerSchema2Layer, MediaTypeDockerSchema2LayerGzip,
      MediaTypeDockerSchema2Config, MediaTypeImageLayerGzip,
      MediaTypeImageLayer, MediaTypeImageConfig }

\* ecrPusher{ecrBase{client, ecrSpec}, tracker}
Pusher(state, spec) == [state |-> state, spec |-> spec]

\* What Push returns: the error and the writer ("none" for nil,
\* "manifestWriter", "layerWriter").
PushResult(err, writer) == [err |-> err, writer |-> writer]

NoPushResult == PushResult(NoErr, "none")

\* manifestWriter: its state ("none", "open", "committed"), the tag of the
\* reference it registers under, its buffer, and what Commit returned.
ManifestWriter(state, tag, buf, err) ==
    [state |-> state, tag |-> tag, buf |-> buf, err |-> err]

NoManifestWriter == ManifestWriter("none", "", <<>>, NoErr)

InitPusher ==
    /\ pusher = Pusher("none", NoSpec)
    /\ ppc = "none"
    /\ pdesc = DescriptorWithURLs("", "", <<>>)
    /\ pctx = FALSE
    /\ plog = <<>>
    /\ pret = NoPushResult
    /\ mw = NoManifestWriter

\* What ParseRef returns: the parsed reference, or the error.
Parsed(spec, err) == [spec |-> spec, err |-> err]

\* No manifest is being sniffed.
IdleSniffer ==
    /\ probe = NoManifest
    /\ declared = FALSE
    /\ sniffedType = "unset"

\* No reference string is being parsed.
IdleRef ==
    /\ rs = NoRef
    /\ rstage = "none"
    /\ rparsed = Parsed(NoSpec, NoErr)
    /\ rcanon = NoRef
    /\ rreparsed = Parsed(NoSpec, NoErr)

InitComponents == InitResolver /\ InitWriter /\ InitFetcher /\ InitPusher

Init == InitComponents /\ IdleSniffer /\ IdleRef

\* newLayerWriter: InitiateLayerUpload, then the pipe and the uploader
\* goroutine.  The pusher has recorded the start in the tracker.  A failed
\* InitiateLayerUpload fails the construction.
newLayerWriter(partSize, e) ==
    /\ lw.state = "none"
    /\ calls' = Append(calls, InitiateLayerUpload(e))
    /\ IF e # NoErr
       THEN /\ lw' = LayerWriter("failed", 0, FALSE)
            /\ ret' = e
            /\ UNCHANGED << proc, status >>
       ELSE /\ lw' = LayerWriter("open", partSize, TRUE)
            /\ ret' = NoErr
            /\ proc' = "running"
            /\ status' = Status(TRUE, FALSE, 0, FALSE)
    /\ UNCHANGED << caller, written, pipe, pipeClosed, chunk, offset, ctxDone >>

\* newLayerWriter called on its own, as the tests of the writer do.
NewLayerWriter(partSize, e) ==
    /\ newLayerWriter(partSize, e)
    /\ UNCHANGED exceptWriter

\* A layerWriter built as a struct literal: a pipe nobody reads, a context
\* that is already cancelled, no InitiateLayerUpload, no uploader.
BareLayerWriter(tracker) ==
    /\ lw.state = "none"
    /\ lw' = LayerWriter("open", 0, tracker)
    /\ ctxDone' = TRUE
    /\ status' = Status(tracker, FALSE, 0, FALSE)
    /\ UNCHANGED << caller, written, pipe, pipeClosed, proc, chunk, offset,
                    calls, ret >>
    /\ UNCHANGED exceptWriter

\* Write(b) with len(b) = n: the bytes go into the pipe and Write waits.
Write(n) ==
    /\ lw.state = "open"
    /\ caller = "ready"
    /\ ~pipeClosed
    /\ written + n <= MaxLayerLen
    /\ pipe' = LayerBytes(written + 1, written + n)
    /\ written' = written + n
    /\ caller' = "writing"
    /\ UNCHANGED << lw, pipeClosed, proc, chunk, offset, ctxDone, calls,
                    status, ret >>
    /\ UNCHANGED exceptWriter

\* Write returns once the uploader has read all of b.
WriteReturn ==
    /\ caller = "writing"
    /\ pipe = <<>>
    /\ caller' = "ready"
    /\ ret' = NoErr
    /\ UNCHANGED << lw, written, pipe, pipeClosed, proc, chunk, offset,
                    ctxDone, calls, status >>
    /\ UNCHANGED exceptWriter

\* How many bytes a read of the uploader takes from the pipe: what is there,
\* up to what the part still lacks.
ReadSize(partSize, have, avail) == Min(avail, partSize - have)

\* The uploader reads from the pipe into the part it is filling.
UploaderRead ==
    /\ proc = "running"
    /\ pipe # <<>>
    /\ Len(chunk) < lw.partSize
    /\ LET n == ReadSize(lw.partSize, Len(chunk), Len(pipe)) IN
         /\ chunk' = chunk \o SubSeq(pipe, 1, n)
         /\ pipe' = SubSeq(pipe, n + 1, Len(pipe))
    /\ UNCHANGED << lw, caller, written, pipeClosed, proc, offset, ctxDone,
                    calls, status, ret >>
    /\ UNCHANGED exceptWriter

\* A part is due: it is full, or the stream has ended on a shorter one.
PartDue(partSize, have, atEOF) ==
    \/ have = partSize
    \/ (atEOF /\ have > 0)

\* The cursor left on the last byte of the part instead of after it.
NextOffsetOnLastByte(first, n) == first + n - 1

\* The cursor after a part of n bytes that started at first.
NextOffset(first, n) == first + n

\* The uploader sends the part with UploadLayerPart; on success the cursor
\* and the status offset advance, on failure the uploader stops with the
\* error.
UploaderUpload(e) ==
    /\ proc = "running"
    /\ PartDue(lw.partSize, Len(chunk), pipeClosed /\ pipe = <<>>)
    /\ calls' = Append(calls, UploadLayerPart(offset, chunk, e))
    /\ IF e = NoErr
       THEN /\ offset' = NextOffset(offset, Len(chunk))
            /\ chunk' = <<>>
            /\ status' = [status EXCEPT !.offset = NextOffset(offset, Len(chunk))]
            /\ UNCHANGED << proc, ctxDone, ret >>
       ELSE /\ proc' = "failed"
            /\ ret' = e
            /\ ctxDone' = TRUE
            /\ UNCHANGED << offset, chunk, status >>
    /\ UNCHANGED << lw, caller, written, pipe, pipeClosed >>
    /\ UNCHANGED exceptWriter

\* The uploader reaches the end of the stream with nothing left: it ends and
\* cancels lw.ctx.
UploaderEOF ==
    /\ proc = "running"
    /\ pipeClosed /\ pipe = <<>> /\ chunk = <<>>
    /\ proc' = "done"
    /\ ctxDone' = TRUE
    /\ UNCHANGED << lw, caller, written, pipe, pipeClosed, chunk, offset,
                    calls, status, ret >>
    /\ UNCHANGED exceptWriter

\* Commit closes the write side of the pipe, then waits for the uploader.
Commit ==
    /\ lw.state = "open"
    /\ caller = "ready"
    /\ pipeClosed' = TRUE
    /\ caller' = "committing"
    /\ UNCHANGED << lw, written, pipe, proc, chunk, offset, ctxDone, calls,
                    status, ret >>
    /\ UNCHANGED exceptWriter

\* The uploader failed: Commit returns its error and completes nothing.
CommitAbort ==
    /\ caller = "committing"
    /\ proc = "failed"
    /\ caller' = "done"
    /\ status' = IF lw.tracker THEN [status EXCEPT !.failed = TRUE] ELSE status
    /\ UNCHANGED << lw, written, pipe, pipeClosed, proc, chunk, offset,
                    ctxDone, calls, ret >>
    /\ UNCHANGED exceptWriter

\* What CompleteLayerUpload answers.
CompleteOutcomes == {"ok", "digest differs", "LayerAlreadyExistsException", "error"}

\* Commit returning every error of CompleteLayerUpload as it is.
CommitResultExistsFails(outcome) ==
    IF outcome = "ok" THEN NoErr
    ELSE IF outcome = "digest differs" THEN errVerifyDigest
    ELSE Err(outcome, "")

\* What Commit returns for an answer of CompleteLayerUpload: the
\* layer-already-exists error is a success.
CommitResult(outcome) ==
    IF outcome = "ok" THEN NoErr
    ELSE IF outcome = "LayerAlreadyExistsException" THEN NoErr
    ELSE IF outcome = "digest differs" THEN errVerifyDigest
    ELSE Err("expected", "")

\* The status of a Commit that records every outcome as completed.
CommitStatusAlwaysUpdated(st, tracker, err) ==
    IF ~tracker THEN st ELSE [st EXCEPT !.updated = TRUE]

\* The status after Commit returned err: updated on success, failed
\* otherwise; a writer without tracker has no record.
CommitStatus(st, tracker, err) ==
    IF ~tracker THEN st
    ELSE IF err = NoErr THEN [st EXCEPT !.updated = TRUE]
    ELSE [st EXCEPT !.failed = TRUE]

\* The wait of Commit is over when the uploader has ended or lw.ctx is
\* cancelled.
CommitMayProceed == proc = "done" \/ (proc # "failed" /\ ctxDone)

\* The uploader has ended, or lw.ctx is done: Commit calls
\* CompleteLayerUpload and returns.
CommitComplete(outcome) ==
    /\ caller = "committing"
    /\ CommitMayProceed
    /\ calls' = Append(calls, CompleteLayerUpload(outcome))
    /\ ret' = CommitResult(outcome)
    /\ status' = CommitStatus(status, lw.tracker, CommitResult(outcome))
    /\ caller' = "done"
    /\ UNCHANGED << lw, written, pipe, pipeClosed, proc, chunk, offset,
                    ctxDone >>
    /\ UNCHANGED exceptWriter

NextWriter ==
    \/ \E partSize \in 1..MaxPartSize, e \in {NoErr, Err("expected", "")} :
          NewLayerWriter(partSize, e)
    \/ \E tracker \in BOOLEAN : BareLayerWriter(tracker)
    \/ \E n \in 0..MaxLayerLen : Write(n)
    \/ WriteReturn
    \/ UploaderRead
    \/ \E e \in {NoErr, Err("expected", "")} : UploaderUpload(e)
    \/ UploaderEOF
    \/ Commit
    \/ CommitAbort
    \/ \E outcome \in CompleteOutcomes : CommitComplete(outcome)

\* ----------------------------------------------------------- Fetch: manifests

\* Layers served by a download URL are at most this long.
MaxPayload == 3

\* The parallel download asks for byte ranges of at most this length.
MaxFragSize == 2

\* The largest download parallelism a fetcher is configured with.
MaxParallelism == 2

\* The references fetchers are bound to: a tag, a digest, both.
FetcherSpecs ==
    { ECRSpec("us-west-2", "123456789012", "foo/bar", obj) :
        obj \in { <<"latest">>, <<"@", "sha256:d1">>,
                  <<"latest", "@", "sha256:d1">> } }

\* The URLs of a foreign layer's descriptor.
URLLists ==
    { <<>>, <<"https://foreign.example/a">>,
      <<"https://foreign.example/a", "https://foreign.example/b">> }

\* The descriptors Fetch is called with.
FetchDescriptors ==
    { DescriptorWithURLs(d, m, <<>>) :
        d \in Digests \cup {""},
        m \in FetchManifestTypes \cup {"never-implemented", ""} }
    \cup { DescriptorWithURLs(d, m, <<>>) :
             d \in {"", "sha256:d1"}, m \in FetchLayerTypes }
    \cup { DescriptorWithURLs("", m, u) : m \in FetchForeignTypes, u \in URLLists }

\* A fetcher comes out of ecrResolver.Fetcher or of a struct literal.
NewFetcher(spec, parallelism) ==
    /\ fetcher.state = "none"
    /\ fetcher' = Fetcher("ready", spec, parallelism)
    /\ fpc' = "ready"
    /\ UNCHANGED << fdesc, fctx, flog, fhttp, fret, payload, fragSize, frags,
                    hproc, fpipe, fclosed, delivered, fend >>
    /\ UNCHANGED exceptFetcher

\* The caller cancels the context it passed, or will pass, to Fetch.
Cancel ==
    /\ fetcher.state = "ready"
    /\ ~fctx
    /\ fctx' = TRUE
    /\ UNCHANGED << fetcher, fpc, fdesc, flog, fhttp, fret, payload, fragSize,
                    frags, hproc, fpipe, fclosed, delivered, fend >>
    /\ UNCHANGED exceptFetcher

\* A call that was given the context fails with the cancellation error once
\* the context is cancelled.
HonoursContext(cancelled, err) == cancelled => err = ErrCanceled

\* The default case of the switch of Fetch.
FetchUnimplemented(desc) ==
    /\ fpc = "ready"
    /\ desc.mediaType \notin FetchManifestTypes \cup FetchLayerTypes \cup FetchForeignTypes
    /\ fdesc' = desc
    /\ fret' = FetchResult(unimplemented, "none", NoManifest)
    /\ fpc' = "returned"
    /\ UNCHANGED << fetcher, fctx, flog, fhttp, payload, fragSize, frags,
                    hproc, fpipe, fclosed, delivered, fend >>
    /\ UNCHANGED exceptFetcher

\* getImage: the image identifier of the bound reference, no accepted types.
getImageInput(spec) ==
    BatchGetImageInput(spec.account, spec.repo, <<ImageID(spec)>>, <<>>)

\* getImageByDescriptor: the descriptor's digest alone, and its media type as
\* the one accepted type when it has one.
getImageByDescriptorInput(spec, desc) ==
    BatchGetImageInput(spec.account, spec.repo,
                       << [tag |-> "", digest |-> desc.digest] >>,
                       IF desc.mediaType # "" THEN <<desc.mediaType>> ELSE <<>>)

\* The first failure of the reply that runGetImage knows decides its error.
RECURSIVE FailuresError(_, _)
FailuresError(failures, i) ==
    IF i > Len(failures) THEN ErrInvalid
    ELSE IF failures[i] \in {"ImageTagDoesNotMatchDigest", "ImageNotFound"}
    THEN errImageNotFound
    ELSE FailuresError(failures, i + 1)

\* runGetImage taking the images of any reply that has some.
runGetImageAnyImages(rep) ==
    IF rep.err # NoErr THEN [images |-> <<>>, err |-> rep.err]
    ELSE IF Len(rep.images) = 0
    THEN [images |-> <<>>, err |-> FailuresError(rep.failures, 1)]
    ELSE [images |-> rep.images, err |-> NoErr]

\* runGetImage after its call: the images, or the error.
runGetImage(rep) ==
    IF rep.err # NoErr THEN [images |-> <<>>, err |-> rep.err]
    ELSE IF Len(rep.images) # 1
    THEN [images |-> <<>>, err |-> FailuresError(rep.failures, 1)]
    ELSE [images |-> rep.images, err |-> NoErr]

\* fetchManifest querying by the bound reference whatever the descriptor.
fetchManifestInputByReference(spec, desc) == getImageInput(spec)

\* The query of fetchManifest: by the bound reference when the descriptor has
\* no digest, by the descriptor otherwise.
fetchManifestInput(spec, desc) ==
    IF desc.digest = "" THEN getImageInput(spec)
    ELSE getImageByDescriptorInput(spec, desc)

\* fetchManifest after its lookup: an in-memory reader over the manifest of
\* the first image.
fetchManifestResult(rep) ==
    IF runGetImage(rep).err # NoErr
    THEN FetchResult(runGetImage(rep).err, "none", NoManifest)
    ELSE FetchResult(NoErr, "manifest", runGetImage(rep).images[1].manifest)

\* The replies of the registry to the BatchGetImage of a manifest Fetch:
\* those of Resolve, and replies with several failures, or with images and a
\* failure.
FetchReplies ==
    Replies
    \cup { Reply(NoErr, <<>>, <<"InvalidImageDigest", "ImageNotFound">>),
           Reply(NoErr, <<Image("sha256:d1", OCIImageIndexSample),
                          Image("sha256:d2", EmptySample)>>,
                 <<"ImageTagDoesNotMatchDigest">>) }

fetchManifest(desc, rep) ==
    /\ fpc = "ready"
    /\ desc.mediaType \in FetchManifestTypes
    /\ HonoursContext(fctx, rep.err)
    /\ fdesc' = desc
    /\ flog' = Append(flog, FetcherCall("BatchGetImage",
                                        fetchManifestInput(fetcher.spec, desc), rep))
    /\ fret' = fetchManifestResult(rep)
    /\ fpc' = "returned"
    /\ UNCHANGED << fetcher, fctx, fhttp, payload, fragSize, frags, hproc,
                    fpipe, fclosed, delivered, fend >>
    /\ UNCHANGED exceptFetcher

\* -------------------------------------------------------------- Fetch: layers

\* ecr.GetDownloadUrlForLayerInput
GetDownloadUrlForLayerInput(registryId, repository, layerDigest) ==
    [registryId |-> registryId, repository |-> repository,
     layerDigest |-> layerDigest]

\* What GetDownloadUrlForLayerWithContext returns: an error or a URL.
DownloadUrl(err, url) == [err |-> err, url |-> url]

\* The URLs the registry hands out: one that parses, one that does not.
DownloadUrls == {"https://layer.example/blob", "%zz"}

DownloadUrlReplies ==
    { DownloadUrl(e, "") : e \in APIErrors }
    \cup { DownloadUrl(NoErr, u) : u \in DownloadUrls }

\* http.NewRequest and url.Parse accept the URL.
URLParses(url) == url # "%zz"

errURLParse == Err("parse: invalid URL escape", "")

\* How an HTTP request ends: a transport error, or a response with a status.
HTTPOutcome(err, code) == [err |-> err, status |-> code]

HTTPOutcomes ==
    { HTTPOutcome("connection refused", 0) }
    \cup { HTTPOutcome("", c) : c \in {200, 299, 300, 404, 500} }

\* ctxhttp.Do once the context is cancelled.
HTTPCanceled == HTTPOutcome("context canceled", 0)

\* A request that is still in flight.
HTTPPending == HTTPOutcome("pending", 0)

\* How the GET of a range task ends.
RangeOutcomes == { HTTPOutcome("", 206), HTTPOutcome("connection reset", 0) }

StatusNotFound == 404

\* Byte i of the layer behind the download URL (positions from 1).
PayloadByte(i) == (i * 41 + 7) % 256

PayloadBytes(from, to) ==
    [i \in 1..(to - from + 1) |-> PayloadByte(from + i - 1)]

\* fetchLayer going on to the download whatever the lookup returned.
fetchLayerIgnoresError(out) == "url"

\* fetchLayer after the lookup: it returns the error, or goes on to the
\* download.
fetchLayerNext(out) == IF out.err # NoErr THEN "returned" ELSE "url"

\* fetchLayer up to the answer of GetDownloadUrlForLayerWithContext.
fetchLayer(desc, out) ==
    /\ fpc = "ready"
    /\ desc.mediaType \in FetchLayerTypes
    /\ HonoursContext(fctx, out.err)
    /\ fdesc' = desc
    /\ flog' = Append(flog,
                      FetcherCall("GetDownloadUrlForLayer",
                                  GetDownloadUrlForLayerInput(fetcher.spec.account,
                                                              fetcher.spec.repo,
                                                              desc.digest),
                                  out))
    /\ fret' = FetchResult(out.err, "none", NoManifest)
    /\ fpc' = fetchLayerNext(out)
    /\ UNCHANGED << fetcher, fctx, fhttp, payload, fragSize, frags, hproc,
                    fpipe, fclosed, delivered, fend >>
    /\ UNCHANGED exceptFetcher

\* fetchLayerURL after doRequest: the response body for a status up to 299.
fetchLayerURLResult(out) ==
    IF out.err # "" THEN FetchResult(Wrap(out.err, "failed to do request"), "none", NoManifest)
    ELSE IF out.status > 299
    THEN IF out.status = StatusNotFound
         THEN FetchResult(Wrap(ErrNotFound, "content not found"), "none", NoManifest)
         ELSE FetchResult(New("ecr.fetcher.layer.url: unexpected status code"),
                          "none", NoManifest)
    ELSE FetchResult(NoErr, "body", NoManifest)

\* fetchLayerURL: one GET of the whole body with the caller's context; n is
\* the length of what the URL serves.
fetchLayerURL(url, out, n) ==
    /\ fetchLayerURLResult(out).err # NoErr => n = 0
    /\ IF ~URLParses(url)
       THEN /\ fret' = FetchResult(errURLParse, "none", NoManifest)
            /\ UNCHANGED << fhttp, payload >>
       ELSE /\ fctx => out = HTTPCanceled
            /\ fhttp' = Append(fhttp, HTTPRequest(url, 0, -1, TRUE, out))
            /\ fret' = fetchLayerURLResult(out)
            /\ payload' = n
    /\ fpc' = "returned"
    /\ UNCHANGED << fetcher, fctx, fragSize, frags, hproc, fpipe, fclosed,
                    delivered, fend >>
    /\ UNCHANGED exceptFetcher

\* The URL the lookup returned.
downloadURL == flog[Len(flog)].answer.url

\* fetchLayer with parallelism 0: the sequential download.
fetchLayerSequential(out, n) ==
    /\ fpc = "url"
    /\ ~(fetcher.parallelism > 0)
    /\ fetchLayerURL(downloadURL, out, n)
    /\ UNCHANGED << fdesc, flog >>

\* The last URL of the descriptor.
LastURL(desc) == desc.urls[Len(desc.urls)]

\* The URL fetchForeignLayer downloads from: the first one of the descriptor.
ForeignURL(desc) == desc.urls[1]

\* fetchForeignLayer: the first URL of the descriptor; a descriptor without
\* URLs makes desc.URLs[0] panic.
fetchForeignLayer(desc, out, n) ==
    /\ fpc = "ready"
    /\ desc.mediaType \in FetchForeignTypes
    /\ fdesc' = desc
    /\ IF Len(desc.urls) < 1
       THEN /\ fpc' = "panicked"
            /\ UNCHANGED << fetcher, fctx, fhttp, fret, payload, fragSize,
                            frags, hproc, fpipe, fclosed, delivered, fend >>
            /\ UNCHANGED exceptFetcher
       ELSE fetchLayerURL(ForeignURL(desc), out, n)
    /\ UNCHANGED flog

\* ------------------------------------------------- Fetch: parallel download

\* The byte ranges of size bytes that cover a body of n bytes.
NumFrags(n, size) == (n + size - 1) \div size

FragFirst(i, size) == (i - 1) * size

FragLast(i, size, n) == Min(i * size, n) - 1

\* The ranges in a given state.
FragsIn(state) == {i \in 1..Len(frags) : frags[i] = state}

\* The defragmenter writing whichever fetched range it finds first from the
\* end, not the next one in offset order.
LastFetchedFrag(fs) ==
    IF \E i \in 1..Len(fs) : fs[i] = "done"
    THEN CHOOSE i \in 1..Len(fs) :
            fs[i] = "done" /\ \A j \in (i + 1)..Len(fs) : fs[j] # "done"
    ELSE 0

\* htc.WriteTo writes the ranges in offset order: the range to write next is
\* the first one not written yet, once it is fetched (0: none yet).
NextFrag(fs) ==
    IF \E i \in 1..Len(fs) : fs[i] # "written"
    THEN LET i == CHOOSE k \in 1..Len(fs) :
                     fs[k] # "written" /\ \A j \in 1..(k - 1) : fs[j] = "written"
         IN  IF fs[i] = "done" THEN i ELSE 0
    ELSE 0

\* fetchLayerHtcat: url.Parse, htcat.New, the pipe and the goroutine; it
\* returns the read side of the pipe.  n is the length of what the URL
\* serves, size the length of the ranges htcat asks for.
fetchLayerHtcat(n, size) ==
    /\ fpc = "url"
    /\ fetcher.parallelism > 0
    /\ IF ~URLParses(downloadURL)
       THEN /\ fret' = FetchResult(errURLParse, "none", NoManifest)
            /\ UNCHANGED << payload, fragSize, frags, hproc >>
       ELSE /\ fret' = FetchResult(NoErr, "pipe", NoManifest)
            /\ payload' = n
            /\ fragSize' = size
            /\ frags' = [i \in 1..NumFrags(n, size) |-> "todo"]
            /\ hproc' = "running"
    /\ fpc' = "returned"
    /\ UNCHANGED << fetcher, fdesc, fctx, flog, fhttp, fpipe, fclosed,
                    delivered, fend >>
    /\ UNCHANGED exceptFetcher

\* A range task starts on the next range with its GET; at most parallelism
\* tasks run.  The request is made with http.DefaultClient and carries no
\* context.
HtcatStart(i) ==
    /\ hproc = "running"
    /\ i \in FragsIn("todo") /\ \A j \in FragsIn("todo") : i <= j
    /\ Cardinality(FragsIn("fetching")) < fetcher.parallelism
    /\ frags' = [frags EXCEPT ![i] = "fetching"]
    /\ fhttp' = Append(fhttp, HTTPRequest(downloadURL, FragFirst(i, fragSize),
                                          FragLast(i, fragSize, payload),
                                          FALSE, HTTPPending))
    /\ UNCHANGED << fetcher, fpc, fdesc, fctx, flog, fret, payload,
                    fragSize, hproc, fpipe, fclosed, delivered, fend >>
    /\ UNCHANGED exceptFetcher

\* A range task's GET ends, in any order among the running tasks.
HtcatFetched(i, out) ==
    /\ hproc = "running"
    /\ i \in FragsIn("fetching")
    /\ frags' = [frags EXCEPT ![i] = IF out.err = "" THEN "done" ELSE "failed"]
    /\ fhttp' = [fhttp EXCEPT ![i].outcome = out]
    /\ UNCHANGED << fetcher, fpc, fdesc, fctx, flog, fret, payload, fragSize,
                    hproc, fpipe, fclosed, delivered, fend >>
    /\ UNCHANGED exceptFetcher

\* htc.WriteTo writes the next range to the pipe; the write waits for the
\* reader.
HtcatWrite ==
    /\ hproc = "running"
    /\ fpipe = <<>> /\ fend = ""
    /\ NextFrag(frags) # 0
    /\ LET i == NextFrag(frags) IN
         /\ fpipe' = PayloadBytes(FragFirst(i, fragSize) + 1,
                                  FragLast(i, fragSize, payload) + 1)
         /\ frags' = [frags EXCEPT ![i] = "written"]
    /\ UNCHANGED << fetcher, fpc, fdesc, fctx, flog, fhttp, fret, payload,
                    fragSize, hproc, fclosed, delivered, fend >>
    /\ UNCHANGED exceptFetcher

\* The deferred pw.Close(): the reader is handed io.EOF, whatever WriteTo
\* returned.
PipeClose(failed) == "EOF"

\* htc.WriteTo returns: nil when every range is written and read, the error
\* of a failed range otherwise; the error is logged and the pipe is closed.
HtcatReturn ==
    /\ hproc = "running"
    /\ fpipe = <<>>
    /\ FragsIn("failed") # {} \/ FragsIn("written") = 1..Len(frags)
    /\ hproc' = "returned"
    /\ fclosed' = TRUE
    /\ UNCHANGED << fetcher, fpc, fdesc, fctx, flog, fhttp, fret, payload,
                    fragSize, frags, fpipe, delivered, fend >>
    /\ UNCHANGED exceptFetcher

\* A return of htc.WriteTo that leaves the write side of the pipe open.
HtcatWriteFailsNoClose ==
    /\ hproc = "running"
    /\ fend = "closed"
    /\ fpipe # <<>> \/ NextFrag(frags) # 0
    /\ hproc' = "returned"
    /\ fpipe' = <<>>
    /\ UNCHANGED << fetcher, fpc, fdesc, fctx, flog, fhttp, fret, payload,
                    fragSize, frags, fclosed, delivered, fend >>
    /\ UNCHANGED exceptFetcher

\* The reader has closed its side: the write htc.WriteTo is blocked in, or the
\* next one it makes, fails with io.ErrClosedPipe; WriteTo returns that error,
\* it is logged and the deferred pw.Close() runs.
HtcatWriteFails ==
    /\ hproc = "running"
    /\ fend = "closed"
    /\ fpipe # <<>> \/ NextFrag(frags) # 0
    /\ hproc' = "returned"
    /\ fclosed' = TRUE
    /\ fpipe' = <<>>
    /\ UNCHANGED << fetcher, fpc, fdesc, fctx, flog, fhttp, fret, payload,
                    fragSize, frags, delivered, fend >>
    /\ UNCHANGED exceptFetcher

\* ------------------------------------------------------ the stream's reader

\* The reader closes the stream before its end: pr.Close().
ReaderClose ==
    /\ fret.stream = "pipe"
    /\ fend = ""
    /\ fend' = "closed"
    /\ UNCHANGED << fetcher, fpc, fdesc, fctx, flog, fhttp, fret, payload,
                    fragSize, frags, hproc, fpipe, fclosed, delivered >>
    /\ UNCHANGED exceptFetcher

\* The reader reads what is in the pipe.
PipeRead ==
    /\ fret.stream = "pipe"
    /\ fend = ""
    /\ fpipe # <<>>
    /\ delivered' = delivered \o fpipe
    /\ fpipe' = <<>>
    /\ UNCHANGED << fetcher, fpc, fdesc, fctx, flog, fhttp, fret, payload,
                    fragSize, frags, hproc, fclosed, fend >>
    /\ UNCHANGED exceptFetcher

\* The reader finds the pipe closed and empty.
PipeEnd ==
    /\ fret.stream = "pipe"
    /\ fend = ""
    /\ fpipe = <<>> /\ fclosed
    /\ fend' = PipeClose(FragsIn("failed") # {})
    /\ UNCHANGED << fetcher, fpc, fdesc, fctx, flog, fhttp, fret, payload,
                    fragSize, frags, hproc, fpipe, fclosed, delivered >>
    /\ UNCHANGED exceptFetcher

\* The reader reads the next k bytes of the response body.
BodyRead(k) ==
    /\ fret.stream = "body"
    /\ fend = ""
    /\ ~fctx
    /\ Len(delivered) + k <= payload
    /\ delivered' = delivered \o PayloadBytes(Len(delivered) + 1, Len(delivered) + k)
    /\ UNCHANGED << fetcher, fpc, fdesc, fctx, flog, fhttp, fret, payload,
                    fragSize, frags, hproc, fpipe, fclosed, fend >>
    /\ UNCHANGED exceptFetcher

\* The response body ends: io.EOF after its last byte; an error when the
\* connection breaks or the request's context is cancelled before that.
BodyEnd(how) ==
    /\ fret.stream = "body"
    /\ fend = ""
    /\ how = "EOF" => (Len(delivered) = payload /\ ~fctx)
    /\ fend' = how
    /\ UNCHANGED << fetcher, fpc, fdesc, fctx, flog, fhttp, fret, payload,
                    fragSize, frags, hproc, fpipe, fclosed, delivered >>
    /\ UNCHANGED exceptFetcher

NextFetcher ==
    \/ \E spec \in FetcherSpecs, parallelism \in 0..MaxParallelism :
          NewFetcher(spec, parallelism)
    \/ Cancel
    \/ \E desc \in FetchDescriptors : FetchUnimplemented(desc)
    \/ \E desc \in FetchDescriptors, rep \in FetchReplies : fetchManifest(desc, rep)
    \/ \E desc \in FetchDescriptors, out \in DownloadUrlReplies : fetchLayer(desc, out)
    \/ \E out \in HTTPOutcomes \cup {HTTPCanceled}, n \in 0..MaxPayload :
          fetchLayerSequential(out, n)
    \/ \E desc \in FetchDescriptors, out \in HTTPOutcomes \cup {HTTPCanceled},
          n \in 0..MaxPayload : fetchForeignLayer(desc, out, n)
    \/ \E n \in 0..MaxPayload, size \in 1..MaxFragSize : fetchLayerHtcat(n, size)
    \/ \E i \in 1..Len(frags) : HtcatStart(i)
    \/ \E i \in 1..Len(frags), out \in RangeOutcomes : HtcatFetched(i, out)
    \/ HtcatWrite
    \/ HtcatReturn
    \/ PipeRead
    \/ PipeEnd
    \/ \E k \in 1..MaxPayload : BodyRead(k)
    \/ \E how \in {"EOF", "error"} : BodyEnd(how)

\* ------------------------------------------------------------------- Push

\* The bytes written to a layer writer that Push opened are at most this many.
MaxPushLen == 3

\* A manifest document is at most this many bytes.
MaxManifestLen == 2

\* The references pushers are bound to: a tag, or a tag and a digest.
PusherSpecs ==
    { ECRSpec("us-west-2", "123456789012", "foo/bar", obj) :
        obj \in { <<"latest">>, <<"latest", "@", "sha256:d1">> } }

\* The descriptors Push is called with.
PushDescriptors ==
    { DescriptorWithURLs(d, m, <<>>) : d \in Digests, m \in PushManifestTypes }
    \cup { DescriptorWithURLs("sha256:d1", m, <<>>) : m \in PushBlobTypes }

\* The replies of the registry to the BatchGetImage of Push.
PushImageReplies ==
    { Reply(e, <<>>, <<>>) : e \in APIErrors \cup {ErrCanceled} }
    \cup { Reply(NoErr, <<>>, <<>>) }
    \cup { Reply(NoErr, <<>>, <<c>>) : c \in ImageFailureCodes }
    \cup { Reply(NoErr, <<Image(d, EmptySample)>>, <<>>) : d \in Digests }

\* ecr.BatchCheckLayerAvailabilityInput
BatchCheckLayerAvailabilityInput(registryId, repository, layerDigests) ==
    [registryId |-> registryId, repository |-> repository,
     layerDigests |-> layerDigests]

\* ecr.BatchCheckLayerAvailabilityOutput: the availability of each layer, and
\* the failures.
LayerReply(err, layers, failures) ==
    [err |-> err, layers |-> layers, failures |-> failures]

\* The replies of the registry to the BatchCheckLayerAvailability of Push.
LayerReplies ==
    { LayerReply(e, <<>>, <<>>) : e \in APIErrors \cup {ErrCanceled} }
    \cup { LayerReply(NoErr, <<a>>, <<>>) : a \in {"AVAILABLE", "UNAVAILABLE"} }
    \cup { LayerReply(NoErr, <<>>, <<"MissingLayerDigest">>) }

\* A pusher comes out of ecrResolver.Pusher or of a struct literal.
NewPusher(spec) ==
    /\ pusher.state = "none"
    /\ pusher' = Pusher("ready", spec)
    /\ ppc' = "ready"
    /\ UNCHANGED << pdesc, pctx, plog, pret, mw >>
    /\ UNCHANGED writerVars
    /\ UNCHANGED exceptPusher

\* The caller cancels the context it passes to Push and to Commit.
PushCancel ==
    /\ pusher.state = "ready"
    /\ ~pctx
    /\ pctx' = TRUE
    /\ UNCHANGED << pusher, ppc, pdesc, plog, pret, mw >>
    /\ UNCHANGED writerVars
    /\ UNCHANGED exceptPusher

\* The tracker's record once the content is known to be on the remote.
markStatusExists(st) == [st EXCEPT !.updated = TRUE]

\* The tracker's record once a push of the content has started.
markStatusStarted(st) == Status(TRUE, FALSE, 0, FALSE)

\* The error of Push for content that is already on the remote.
errAlreadyExists(desc) == Wrap(ErrAlreadyExists, "content on remote")

\* The query of the manifest's existence: by the descriptor.
checkManifestExistenceInput(spec, desc) == getImageByDescriptorInput(spec, desc)

\* A manifest that is never found on the remote.
ManifestNeverExists(desc, rep) == FALSE

\* The manifest is on the remote: the registry has an image of the
\* descriptor's digest.
ManifestExists(desc, rep) ==
    /\ runGetImage(rep).err = NoErr
    /\ runGetImage(rep).images[1].digest = desc.digest

\* The error of the existence check of a manifest: an image that is not
\* found is no error.
checkManifestExistenceError(rep) ==
    IF runGetImage(rep).err = errImageNotFound THEN NoErr
    ELSE runGetImage(rep).err

\* Push of a manifest: the existence check, then the status record and the
\* manifest writer.
pushManifest(desc, rep) ==
    /\ ppc = "ready"
    /\ desc.mediaType \in PushManifestTypes
    /\ HonoursContext(pctx, rep.err)
    /\ pdesc' = desc
    /\ plog' = Append(plog, FetcherCall("BatchGetImage",
                         checkManifestExistenceInput(pusher.spec, desc), rep))
    /\ ppc' = "returned"
    /\ IF checkManifestExistenceError(rep) # NoErr
       THEN /\ pret' = PushResult(checkManifestExistenceError(rep), "none")
            /\ UNCHANGED << mw, status >>
       ELSE IF ManifestExists(desc, rep)
       THEN /\ pret' = PushResult(errAlreadyExists(desc), "none")
            /\ status' = markStatusExists(status)
            /\ UNCHANGED mw
       ELSE /\ pret' = PushResult(NoErr, "manifestWriter")
            /\ status' = markStatusStarted(status)
            /\ mw' = ManifestWriter("open", TagDigest(pusher.spec).tag, <<>>, NoErr)
    /\ UNCHANGED << pusher, pctx >>
    /\ UNCHANGED << lw, caller, written, pipe, pipeClosed, proc, chunk, offset,
                    ctxDone, calls, ret >>
    /\ UNCHANGED exceptPusher

\* The query of the layer's availability asking for no layer.
checkBlobExistenceInputNoDigest(spec, desc) ==
    BatchCheckLayerAvailabilityInput(spec.account, spec.repo, <<>>)

\* The query of the layer's availability: the descriptor's digest alone.
checkBlobExistenceInput(spec, desc) ==
    BatchCheckLayerAvailabilityInput(spec.account, spec.repo, <<desc.digest>>)

\* The error of the existence check of a layer: the call's, or the reply has
\* not exactly one layer.
checkBlobExistenceError(out) ==
    IF out.err # NoErr THEN out.err
    ELSE IF Len(out.layers) # 1 THEN errLayerNotFound
    ELSE NoErr

\* The layer is on the remote.
BlobExists(out) ==
    /\ checkBlobExistenceError(out) = NoErr
    /\ out.layers[1] = "AVAILABLE"

\* Push of a layer or a config: the existence check, then the status record
\* and the layer writer, whose constructor calls InitiateLayerUpload.
pushBlob(desc, out, partSize, e) ==
    /\ ppc = "ready"
    /\ desc.mediaType \in PushBlobTypes
    /\ HonoursContext(pctx, out.err)
    /\ pdesc' = desc
    /\ plog' = Append(plog, FetcherCall("BatchCheckLayerAvailability",
                         checkBlobExistenceInput(pusher.spec, desc), out))
    /\ ppc' = "returned"
    /\ IF checkBlobExistenceError(out) # NoErr
       THEN /\ pret' = PushResult(checkBlobExistenceError(out), "none")
            /\ UNCHANGED writerVars
       ELSE IF BlobExists(out)
       THEN /\ pret' = PushResult(errAlreadyExists(desc), "none")
            /\ status' = markStatusExists(status)
            /\ UNCHANGED << lw, caller, written, pipe, pipeClosed, proc,
                            chunk, offset, ctxDone, calls, ret >>
       ELSE /\ newLayerWriter(partSize, e)
            /\ pret' = IF e # NoErr THEN PushResult(e, "none")
                       ELSE PushResult(NoErr, "layerWriter")
    /\ UNCHANGED << pusher, pctx, mw >>
    /\ UNCHANGED exceptPusher

\* --------------------------------------------------------- manifest writer

\* The digest of a manifest document.
ManifestDigest(buf) ==
    IF buf = <<1>> THEN "sha256:d1"
    ELSE IF buf = <<2>> THEN "sha256:d2"
    ELSE "sha256:other"

\* What PutImage answers.
PutImageOutcomes == {"ok", "ImageAlreadyExistsException", "error", "RequestCanceled"}

PutImage(buf, outcome) == ClientCall("PutImage", 0, 0, buf, outcome)

errManifestDigest == New("ecr: manifest does not match the expected size and digest")

\* Write on the manifest writer: the bytes go into its buffer.
mwWrite(b) ==
    /\ mw.state = "open"
    /\ Len(mw.buf) < MaxManifestLen
    /\ mw' = [mw EXCEPT !.buf = Append(mw.buf, b)]
    /\ UNCHANGED << pusher, ppc, pdesc, pctx, plog, pret >>
    /\ UNCHANGED writerVars
    /\ UNCHANGED exceptPusher

\* The buffered document is not the content Commit was told to expect.
mwMismatch(buf, size, expected) ==
    size # Len(buf) \/ expected # ManifestDigest(buf)

\* What Commit of the manifest writer returns for an answer of PutImage: the
\* image-already-exists error is passed on as AlreadyExists.
mwCommitResult(outcome) ==
    IF outcome = "ok" THEN NoErr
    ELSE IF outcome = "ImageAlreadyExistsException"
    THEN Wrap(ErrAlreadyExists, "image exists on remote")
    ELSE Err(outcome, "")

\* The status after Commit of the manifest writer returned err: updated on
\* success and when the image already exists, failed otherwise.
mwCommitStatus(st, err) ==
    IF err = NoErr \/ err.cause = ErrAlreadyExists
    THEN [st EXCEPT !.updated = TRUE]
    ELSE [st EXCEPT !.failed = TRUE]

\* Commit of the manifest writer: the check of the buffered content, then
\* PutImage under the bound tag.
mwCommit(size, expected, outcome) ==
    /\ mw.state = "open"
    /\ IF mwMismatch(mw.buf, size, expected)
       THEN /\ outcome = "ok"
            /\ mw' = [mw EXCEPT !.state = "committed", !.err = errManifestDigest]
            /\ status' = mwCommitStatus(status, errManifestDigest)
            /\ UNCHANGED calls
       ELSE /\ pctx => outcome = "RequestCanceled"
            /\ calls' = Append(calls, PutImage(mw.buf, outcome))
            /\ mw' = [mw EXCEPT !.state = "committed",
                                !.err = mwCommitResult(outcome)]
            /\ status' = mwCommitStatus(status, mwCommitResult(outcome))
    /\ UNCHANGED << pusher, ppc, pdesc, pctx, plog, pret >>
    /\ UNCHANGED << lw, caller, written, pipe, pipeClosed, proc, chunk, offset,
                    ctxDone, ret >>
    /\ UNCHANGED exceptPusher

\* Close of the manifest writer without Commit: nothing is registered.
mwClose ==
    /\ mw.state = "open"
    /\ mw' = [mw EXCEPT !.state = "closed"]
    /\ UNCHANGED << pusher, ppc, pdesc, pctx, plog, pret >>
    /\ UNCHANGED writerVars
    /\ UNCHANGED exceptPusher

\* A pusher, one Push, and the life of the writer it returned.
NextPusher ==
    \/ \E spec \in PusherSpecs : NewPusher(spec)
    \/ PushCancel
    \/ \E desc \in PushDescriptors, rep \in PushImageReplies : pushManifest(desc, rep)
    \/ \E desc \in PushDescriptors, out \in LayerReplies,
          partSize \in 1..MaxPartSize, e \in {NoErr, Err("expected", "")} :
          pushBlob(desc, out, partSize, e)
    \/ \E b \in 1..2 : mwWrite(b)
    \/ \E size \in 0..MaxManifestLen, expected \in Digests,
          outcome \in PutImageOutcomes : mwCommit(size, expected, outcome)
    \/ mwClose
    \/ \E n \in 0..MaxPushLen : written + n <= MaxPushLen /\ Write(n)
    \/ WriteReturn
    \/ UploaderRead
    \/ \E e \in {NoErr, Err("expected", "")} : UploaderUpload(e)
    \/ UploaderEOF
    \/ Commit
    \/ CommitAbort
    \/ \E outcome \in CompleteOutcomes : CommitComplete(outcome)

SpecPusher == Init /\ [][NextPusher]_vars

\* ------------------------------------------------ the sniffer on its own

\* A manifest lists at most this many child manifests.
MaxManifests == 2

\* The raw "signatures" member: absent, the empty list [], a list of one
\* signature.
SignaturesAbsent == <<>>

SignaturesEmptyList == <<"[", "]">>

SignaturesOne == <<"[", "{", "}", "]">>

\* The media types of the child manifests of a list.
ChildTypes == {MediaTypeImageManifest, MediaTypeDockerSchema2Manifest, "text/plain"}

ChildLists == UNION { [1..n -> ChildTypes] : n \in 0..MaxManifests }

\* The manifest bodies handed to the sniffer: every combination of the
\* members manifestProbe reads, and a body that is not JSON.
ProbeBodies ==
    { Manifest(TRUE, v, m, sg, ch, cfg, 2) :
        v \in 0..3,
        m \in {"", MediaTypeImageIndex, "text/plain"},
        sg \in {SignaturesAbsent, SignaturesEmptyList, SignaturesOne},
        ch \in ChildLists,
        cfg \in {"", MediaTypeDockerSchema2Config, MediaTypeImageConfig} }
    \cup {UnparsableSample}

InitSniffer ==
    /\ InitComponents /\ IdleRef
    /\ probe \in ProbeBodies
    /\ declared \in BOOLEAN
    /\ probe.mediaType # "" => declared
    /\ ~probe.json => ~declared
    /\ sniffedType = "unset"

\* parseImageManifestMediaType is called on the body.
Sniff ==
    /\ sniffedType = "unset"
    /\ sniffedType' = parseImageManifestMediaType(probe)
    /\ UNCHANGED << probe, declared >>
    /\ UNCHANGED exceptSniffer

NextSniffer == Sniff

SpecSniffer == InitSniffer /\ [][NextSniffer]_vars

\* -------------------------------------------- reference strings on their own

\* The reference strings handed to ParseRef.
RoundTripRefs ==
    { RefString(p, r, "123456789012", repo, obj) :
        p \in {"ecr.aws/", "docker.io/"},
        r \in {"us-west-2", "us-east-1", ""},
        repo \in {"foo/bar", "example/repo-name"},
        obj \in { <<>>, <<":", "latest">>, <<":", "v1">>,
                  <<"@", "sha256:d1">>, <<"@", "sha256:d2">>,
                  <<":", "latest", "@", "sha256:d1">>,
                  <<":", "latest", "@", "sha256:d2">>,
                  <<":", "v1", "@", "sha256:d1">>,
                  <<":", "v1", "@", "sha256:d2">> } }

InitRef ==
    /\ InitComponents /\ IdleSniffer
    /\ rs \in RoundTripRefs
    /\ rstage = "string"
    /\ rparsed = Parsed(NoSpec, NoErr)
    /\ rcanon = NoRef
    /\ rreparsed = Parsed(NoSpec, NoErr)

\* ParseRef(ref), as Resolve, Fetcher and Pusher start.
RefParse ==
    /\ rstage = "string"
    /\ rparsed' = ParseRef(rs)
    /\ rstage' = "parsed"
    /\ UNCHANGED << rs, rcanon, rreparsed >>
    /\ UNCHANGED exceptRef

\* ecrSpec.Canonical(), as Resolve ends.
RefCanonical ==
    /\ rstage = "parsed"
    /\ rparsed.err = NoErr
    /\ rcanon' = Canonical(rparsed.spec)
    /\ rstage' = "canonical"
    /\ UNCHANGED << rs, rparsed, rreparsed >>
    /\ UNCHANGED exceptRef

\* ParseRef of the canonical string, as a caller does that passes what
\* Resolve returned to Resolve, Fetcher or Pusher.
RefReparse ==
    /\ rstage = "canonical"
    /\ rreparsed' = ParseRef(rcanon)
    /\ rstage' = "reparsed"
    /\ UNCHANGED << rs, rparsed, rcanon >>
    /\ UNCHANGED exceptRef

NextRef == RefParse \/ RefCanonical \/ RefReparse

SpecRef == InitRef /\ [][NextRef]_vars

SpecFetcher == Init /\ [][NextFetcher]_vars

\* ------------------------------------- the parallel fetch and its reader

\* The layers fetched in parallel: gzip layers named by their digest.
HtcatDescriptors ==
    { d \in FetchDescriptors :
        /\ d.digest = "sha256:d1"
        /\ d.mediaType \in {MediaTypeDockerSchema2LayerGzip, MediaTypeImageLayerGzip} }

\* One parallel layer fetch, from the fetcher's construction to the end of
\* the stream, with a reader that reads on or closes the stream early.
NextHtcat ==
    \/ \E parallelism \in 1..MaxParallelism :
          NewFetcher(ECRSpec("us-west-2", "123456789012", "foo/bar", <<"latest">>),
                     parallelism)
    \/ Cancel
    \/ \E desc \in HtcatDescriptors, out \in DownloadUrlReplies :
          fetchLayer(desc, out)
    \/ \E n \in 0..MaxPayload, size \in 1..MaxFragSize : fetchLayerHtcat(n, size)
    \/ \E i \in 1..Len(frags) : HtcatStart(i)
    \/ \E i \in 1..Len(frags), out \in RangeOutcomes : HtcatFetched(i, out)
    \/ HtcatWrite
    \/ HtcatReturn
    \/ HtcatWriteFails
    \/ ReaderClose
    \/ PipeRead
    \/ PipeEnd

\* The goroutines of a parallel fetch keep running: every range request ends,
\* htc.WriteTo goes on when it can, and the reader of the stream goes on
\* reading as long as it has not closed it.
FairHtcat ==
    /\ WF_vars(\E i \in 1..Len(frags) : HtcatStart(i))
    /\ WF_vars(\E i \in 1..Len(frags), out \in RangeOutcomes : HtcatFetched(i, out))
    /\ WF_vars(HtcatWrite)
    /\ WF_vars(HtcatReturn)
    /\ WF_vars(HtcatWriteFails)
    /\ WF_vars(PipeRead)
    /\ WF_vars(PipeEnd)

SpecHtcat == Init /\ [][NextHtcat]_vars /\ FairHtcat

SpecWriter == Init /\ [][NextWriter]_vars

SpecResolver == Init /\ [][NextResolver]_vars

\* ------------------------------------------------------------------ claims

\* The UploadLayerPart calls made so far, in order.
IsPart(c) == c.name = "UploadLayerPart"

Parts == SelectSeq(calls, IsPart)

IsComplete(c) == c.name = "CompleteLayerUpload"

Completes == SelectSeq(calls, IsComplete)

\* C1: for a writer with part size p from InitiateLayerUpload and n bytes
\* written so far, the k-th UploadLayerPart call has the range
\* [(k-1)*p, min(k*p, n)-1] and carries the layer's bytes of that range: the
\* first part starts at 0, each part starts one byte after the previous one
\* ends, only the last part, sent after the stream was closed, is shorter
\* than p; CompleteLayerUpload is called at most once, as the last call, when
\* the parts cover all n bytes, and exactly once when Commit returns after
\* the uploader has ended.
C1_PartsSequentialThenOneComplete ==
    (lw.state = "open" /\ lw.partSize > 0) =>
        LET p == lw.partSize IN
        /\ calls[1].name = "InitiateLayerUpload"
        /\ \A k \in 1..Len(Parts) :
              /\ Parts[k].first = (k - 1) * p
              /\ Parts[k].last = Min(k * p, written) - 1
              /\ k > 1 => Parts[k].first = Parts[k - 1].last + 1
              /\ Len(Parts[k].blob) = Parts[k].last - Parts[k].first + 1
              /\ \A i \in 1..Len(Parts[k].blob) :
                    Parts[k].blob[i] = LayerByte(Parts[k].first + i)
              /\ Len(Parts[k].blob) < p => (k = Len(Parts) /\ pipeClosed)
        /\ Len(Completes) <= 1
        /\ Len(Completes) = 1 =>
              /\ IsComplete(calls[Len(calls)])
              /\ Len(Parts) * p >= written
              /\ (Len(Parts) - 1) * p < written \/ Len(Parts) = 0
              /\ \A k \in 1..Len(Parts) : Parts[k].answer = "nil"
        /\ (caller = "done" /\ proc = "done") => Len(Completes) = 1

\* The test's case: 32 bytes, part size 1, 32 parts [0,0]..[31,31], then the
\* one CompleteLayerUpload.
C1_Witness ==
    /\ lw.state = "open" /\ lw.partSize = 1
    /\ written = 32
    /\ caller = "done" /\ ret = NoErr
    /\ Len(Parts) = 32
    /\ \A k \in 1..32 : Parts[k].first = k - 1 /\ Parts[k].last = k - 1
    /\ Len(calls) = 34
    /\ IsComplete(calls[34]) /\ calls[34].answer = "ok"

RefParses(s) == s.prefix = "ecr.aws/"

RefHasTag(s) == s.object # <<>> /\ Head(s.object) = ":"

RefHasDigest(s) == \E i \in 1..Len(s.object) : s.object[i] = "@"

RefDigest(s) ==
    IF RefHasDigest(s) THEN s.object[Len(s.object)] ELSE ""

\* Resolve has made its registry call and returned.
Resolved(t) == pc[t] = "done" /\ op[t] = "Resolve" /\ apiLog[t] # <<>>

\* Resolve returned an error with nothing else.
FailedWith(t, err) == result[t] = Result(NoRef, EmptyDescriptor, "", err)

\* C3: a step of a Pusher call that ends in a rejection (the reference does
\* not parse, is digest-only, or has no digest) is the call's return itself:
\* the thread never enters getClient, no client is constructed, the cache is
\* left as it was and no registry call is made; a digest-only reference is
\* always rejected that way.
C3_RejectedPusherNoSideEffect ==
    [][\A t \in Threads :
         /\ (op'[t] = "Pusher" /\ pc'[t] # pc[t] /\ result'[t].err # NoErr)
              => /\ pc[t] = "idle" /\ pc'[t] = "done"
                 /\ clients' = clients
                 /\ created' = created
                 /\ client'[t] = 0
                 /\ apiLog'[t] = <<>>
         /\ (op'[t] = "Pusher" /\ pc[t] = "idle" /\ RefParses(ref'[t])
               /\ RefHasDigest(ref'[t]) /\ ~RefHasTag(ref'[t]))
              => result'[t].err = errPushByDigest
      ]_vars

C3_Witness ==
    \E t \in Threads :
        /\ pc[t] = "done" /\ op[t] = "Pusher"
        /\ ref[t] = FakeRefWithObject("us-west-2", <<"@", "sha256:d1">>)
        /\ result[t].err = errPushByDigest
        /\ DOMAIN clients = {}
        /\ \A r \in Regions : created[r] = 0

\* C4: Pusher returns a pusher exactly when the reference parses and has both
\* a tag and a digest; a digest without a tag fails with the
\* cannot-push-by-digest error, no digest fails with the
\* root-descriptor-missing error, a reference that does not parse with the
\* parser's error.
C4_PusherExactlyForTagAndDigest ==
    \A t \in Threads :
        (pc[t] = "done" /\ op[t] = "Pusher") =>
            /\ (result[t].obj = "ecrPusher")
                 <=> (RefParses(ref[t]) /\ RefHasTag(ref[t]) /\ RefHasDigest(ref[t]))
            /\ (result[t].obj = "ecrPusher") <=> (result[t].err = NoErr)
            /\ (RefParses(ref[t]) /\ RefHasDigest(ref[t]) /\ ~RefHasTag(ref[t]))
                 => result[t].err = errPushByDigest
            /\ (RefParses(ref[t]) /\ ~RefHasDigest(ref[t]))
                 => result[t].err = errRootDescriptorMissing
            /\ ~RefParses(ref[t]) => result[t].err # NoErr

C4_Witness ==
    \E t \in Threads :
        /\ pc[t] = "done" /\ op[t] = "Pusher"
        /\ result[t].obj = "ecrPusher"
        /\ ref[t] = FakeRefWithObject("us-west-2", <<":", "latest", "@", "sha256:d1">>)
        /\ client[t] # 0

\* C5: in every step, whatever the interleaving of the calls: no region has
\* more than one client constructed for it (none when the cache was seeded
\* for it), an entry of the cache is neither replaced nor removed, and every
\* thread that got a client got the entry of its region, so two threads
\* asking for one region hold the same client.
C5_OneClientPerRegion ==
    [][/\ \A r \in Regions :
             created'[r] + (IF r \in DOMAIN clients /\ clients[r] = FakeClient
                            THEN 1 ELSE 0) <= 1
       /\ \A r \in DOMAIN clients :
             r \in DOMAIN clients' /\ clients'[r] = clients[r]
       /\ \A t \in Threads :
             client'[t] # 0 => client'[t] = clients'[ecrSpec'[t].region]
       /\ \A t, u \in Threads :
             (client'[t] # 0 /\ client'[u] # 0
                /\ ecrSpec'[t].region = ecrSpec'[u].region)
               => client'[t] = client'[u]
      ]_vars

C5_Witness ==
    /\ client["t1"] = NewClient("us-east-1", 1)
    /\ client["t2"] = NewClient("us-east-1", 1)
    /\ op["t1"] = "Fetcher" /\ op["t2"] = "Pusher"
    /\ created["us-east-1"] = 1

\* C6: when Resolve got an image, a digest in the reference that differs from
\* the image's digest makes it fail with a FailedPrecondition error, an empty
\* reference and an empty descriptor; without a digest in the reference, or
\* with equal digests, it never fails with the digest-mismatch error.
C6_DigestMismatchFails ==
    \A t \in Threads :
        (Resolved(t) /\ reply[t].err = NoErr /\ Len(reply[t].images) > 0) =>
            LET expected == RefDigest(ref[t])
                resolved == reply[t].images[1].digest
            IN  /\ (expected # "" /\ resolved # expected)
                     => /\ result[t].err.cause = ErrFailedPrecondition
                        /\ FailedWith(t, result[t].err)
                /\ (expected = "" \/ resolved = expected)
                     => result[t].err # errDigestMismatch

C6_Witness ==
    \E t \in Threads :
        /\ Resolved(t)
        /\ RefDigest(ref[t]) = "sha256:d1"
        /\ reply[t].images # <<>> /\ reply[t].images[1].digest = "sha256:d2"
        /\ FailedWith(t, errDigestMismatch)

\* The media type of the first image of a reply, as the sniffer is specified
\* for the samples.
SampleMediaType(m) ==
    IF m = OCIImageIndexSample THEN MediaTypeImageIndex
    ELSE IF m = EmptySample THEN ""
    ELSE IF m = ForeignTypeSample THEN "text/plain"
    ELSE IF m = Schema1UnsignedSample THEN mediaTypeDockerSchema1ManifestUnsigned
    ELSE MediaTypeDockerSchema2Manifest

\* C7: when Resolve got an image, it fails with the media-type
\* FailedPrecondition error (and an empty reference and descriptor) exactly
\* when the type sniffed from the manifest, the empty type included, is none
\* of the accepted media types of the request it sent.
C7_MediaTypeMustBeAccepted ==
    \A t \in Threads :
        (Resolved(t) /\ reply[t].err = NoErr /\ Len(reply[t].images) > 0) =>
            LET sniffed == SampleMediaType(reply[t].images[1].manifest)
                accepted == apiLog[t][1].input.accepted
                member == \E i \in 1..Len(accepted) : accepted[i] = sniffed
            IN  /\ ~member <=> result[t].err = errMediaType
                /\ ~member => /\ FailedWith(t, errMediaType)
                              /\ result[t].err.cause = ErrFailedPrecondition

C7_Witness ==
    \E t \in Threads :
        /\ Resolved(t)
        /\ reply[t].images # <<>> /\ reply[t].images[1].manifest = EmptySample
        /\ FailedWith(t, errMediaType)

\* C8: a reply with zero images and zero failures makes Resolve return the
\* invalid-reference error with an empty reference and an empty descriptor.
C8_EmptyReplyIsInvalid ==
    \A t \in Threads :
        (Resolved(t) /\ reply[t] = Reply(NoErr, <<>>, <<>>))
            => FailedWith(t, ErrInvalid)

C8_Witness ==
    \E t \in Threads :
        /\ Resolved(t) /\ reply[t] = Reply(NoErr, <<>>, <<>>)
        /\ FailedWith(t, ErrInvalid)

\* C9: a reply with no image but with a lookup failure (image not found, tag
\* does not match digest) makes Resolve fail with the error of that failure
\* class, not with the generic error of an empty reply.
C9_FailureClassReported ==
    \A t \in Threads :
        (Resolved(t) /\ reply[t].err = NoErr /\ reply[t].images = <<>>
           /\ reply[t].failures # <<>>
           /\ reply[t].failures[1] \in {"ImageNotFound", "ImageTagDoesNotMatchDigest"})
            => /\ result[t].err # NoErr
               /\ result[t].err # ErrInvalid

\* C10: when the BatchGetImage call of Resolve fails with e, Resolve returns
\* e itself with an empty reference and an empty descriptor, and that call
\* was its only registry call.
C10_APIErrorUnchanged ==
    \A t \in Threads :
        /\ Len(apiLog[t]) <= 1
        /\ (Resolved(t) /\ reply[t].err # NoErr)
             => /\ FailedWith(t, reply[t].err)
                /\ Len(apiLog[t]) = 1
                /\ apiLog[t][1].name = "BatchGetImage"

C10_Witness ==
    \E t \in Threads :
        /\ Resolved(t)
        /\ reply[t].err = Err("expected", "")
        /\ FailedWith(t, Err("expected", ""))
        /\ Len(apiLog[t]) = 1

\* The tag a reference string names, "" when it names none.
RefTag(s) == IF RefHasTag(s) THEN s.object[2] ELSE ""

\* C11: a Resolve that succeeds returns the reference string it was given
\* (the canonical string of the parsed reference) and a descriptor with the
\* digest of the first image of the reply, the media type sniffed from that
\* image's manifest and the manifest's byte length; its one query carried
\* the account, the repository and the tag and/or digest of the reference.
C11_ResolveReturnsCanonicalAndDescriptor ==
    \A t \in Threads :
        (Resolved(t) /\ result[t].err = NoErr) =>
            /\ reply[t].err = NoErr /\ reply[t].images # <<>>
            /\ result[t].ref = ref[t]
            /\ result[t].desc.digest = reply[t].images[1].digest
            /\ result[t].desc.mediaType
                 = SampleMediaType(reply[t].images[1].manifest)
            /\ result[t].desc.size = reply[t].images[1].manifest.size
            /\ Len(apiLog[t]) = 1
            /\ apiLog[t][1].name = "BatchGetImage"
            /\ apiLog[t][1].input.registryId = ref[t].account
            /\ apiLog[t][1].input.repository = ref[t].repo
            /\ apiLog[t][1].input.imageIds
                 = << [tag |-> RefTag(ref[t]), digest |-> RefDigest(ref[t])] >>

\* The test's case: the tag reference resolved to the OCI image index.
C11_Witness ==
    \E t \in Threads :
        /\ Resolved(t)
        /\ ref[t] = FakeRefWithObject("us-west-2", <<":", "latest">>)
        /\ reply[t].images = << Image("sha256:d1", OCIImageIndexSample) >>
        /\ result[t] = Result(ref[t],
                              Descriptor("sha256:d1", MediaTypeImageIndex, 40),
                              "", NoErr)
        /\ apiLog[t][1].input.imageIds = << [tag |-> "latest", digest |-> ""] >>

\* A sequence of bytes is the beginning of the layer behind the download URL.
IsPayloadPrefix(bytes) ==
    /\ Len(bytes) <= payload
    /\ \A i \in 1..Len(bytes) : bytes[i] = PayloadByte(i)

IsLookup(c) == c.name = "GetDownloadUrlForLayer"

Lookups == SelectSeq(flog, IsLookup)

\* A layer Fetch has returned a stream.
LayerStream ==
    /\ fpc = "returned" /\ fdesc.mediaType \in FetchLayerTypes
    /\ fret.err = NoErr

\* Some range request of the parallel download failed.
RangeFailed == \E i \in 1..Len(fhttp) : ~fhttp[i].withCtx /\ fhttp[i].outcome.err
                                           \notin {"", "pending"}

\* C12: the reader of a layer stream has, at every moment, read a beginning
\* of the layer in offset order, and at the end of a stream none of whose
\* requests failed it has read all of it: with parallelism N > 0, whatever
\* the order in which the range requests complete, exactly as with
\* parallelism 0; in both modes the Fetch made one download-URL lookup and
\* no other registry call.
C12_ParallelDeliversSameBytes ==
    LayerStream =>
        /\ fret.stream = (IF fetcher.parallelism > 0 THEN "pipe" ELSE "body")
        /\ IsPayloadPrefix(delivered)
        /\ IsPayloadPrefix(delivered \o fpipe)
        /\ (fend = "EOF" /\ ~RangeFailed) => delivered = PayloadBytes(1, payload)
        /\ Len(Lookups) = 1 /\ Len(flog) = 1

\* Parallelism 2 over three ranges: the third range is fetched while the
\* second is still in flight, and the reader has the first range only.
C12_Witness ==
    /\ LayerStream /\ fetcher.parallelism = 2
    /\ payload = 3 /\ fragSize = 1
    /\ frags = << "written", "fetching", "done" >>
    /\ delivered = PayloadBytes(1, 1)
    /\ Len(Lookups) = 1

\* C13: when a range request of a parallel download failed, the reader of
\* the stream is handed an error, never a normal end of stream after fewer
\* bytes than the layer has.
C13_RangeFailureBreaksStream ==
    (LayerStream /\ fret.stream = "pipe" /\ fend # "") =>
        /\ RangeFailed => fend = "error"
        /\ fend = "EOF" => Len(delivered) = payload

\* C14: once the caller's context is cancelled, a registry call or HTTP
\* request that is made or that completes ends with the cancellation error.
C14_CancelledCallsReturnCancelled ==
    [][fctx =>
         /\ \A i \in 1..Len(fhttp') :
               (i > Len(fhttp) \/ fhttp'[i] # fhttp[i])
                 => fhttp'[i].outcome = HTTPCanceled
         /\ \A i \in (Len(flog) + 1)..Len(flog') :
               flog'[i].answer.err = ErrCanceled
      ]_vars

\* The tag and the digest of the reference a fetcher is bound to, read off
\* its object.
BoundTag(spec) ==
    IF spec.object # <<>> /\ spec.object[1] # "@" THEN spec.object[1] ELSE ""

BoundDigest(spec) ==
    IF \E i \in 1..Len(spec.object) : spec.object[i] = "@"
    THEN spec.object[Len(spec.object)] ELSE ""

\* A manifest Fetch has returned.
ManifestFetched == fpc = "returned" /\ fdesc.mediaType \in FetchManifestTypes

C19_QueryCarriesBoundIdentifier ==
    (ManifestFetched /\ fdesc.digest = BoundDigest(fetcher.spec)) =>
        flog[1].input.imageIds
          = << [tag |-> BoundTag(fetcher.spec),
                digest |-> BoundDigest(fetcher.spec)] >>

\* A layer Fetch has made its lookup.
LayerLookedUp == fpc \in {"url", "returned"} /\ fdesc.mediaType \in FetchLayerTypes

\* C20: a layer Fetch makes one registry call, the download-URL lookup for
\* the account and repository of the fetcher's reference and the
\* descriptor's digest; no HTTP request is made before the lookup has
\* answered, every request made goes to the URL it answered, and when it
\* answered with an error the Fetch has returned that error, no stream and
\* made no request.
C20_LookupOnceThenGet ==
    /\ fpc = "ready" => fhttp = <<>>
    /\ LayerLookedUp =>
        /\ Len(flog) = 1 /\ IsLookup(flog[1])
        /\ flog[1].input
             = [registryId |-> fetcher.spec.account,
                repository |-> fetcher.spec.repo,
                layerDigest |-> fdesc.digest]
        /\ fpc = "url" => fhttp = <<>>
        /\ \A i \in 1..Len(fhttp) : fhttp[i].url = flog[1].answer.url
        /\ flog[1].answer.err # NoErr =>
              /\ fpc = "returned"
              /\ fret = FetchResult(flog[1].answer.err, "none", NoManifest)
              /\ fhttp = <<>>

\* The sequential download of a layer by its digest.
C20_Witness ==
    /\ LayerLookedUp /\ fpc = "returned"
    /\ flog[1].input.layerDigest = "sha256:d1"
    /\ flog[1].answer = DownloadUrl(NoErr, "https://layer.example/blob")
    /\ fhttp = << HTTPRequest("https://layer.example/blob", 0, -1, TRUE,
                               HTTPOutcome("", 200)) >>
    /\ fret.stream = "body"

\* ------------------------------------------------------------ claims: Push

\* Push has returned after its one existence check.
Pushed == ppc = "returned" /\ Len(plog) = 1

\* The existence check of the Push answered that the content is on the
\* remote: the layer is available, or the one image has the descriptor's
\* digest.
ReportsExisting ==
    /\ Pushed
    /\ plog[1].answer.err = NoErr
    /\ \/ /\ plog[1].name = "BatchCheckLayerAvailability"
          /\ plog[1].answer.layers = <<"AVAILABLE">>
       \/ /\ plog[1].name = "BatchGetImage"
          /\ Len(plog[1].answer.images) = 1
          /\ plog[1].answer.images[1].digest = pdesc.digest

\* The existence check of the Push answered that the content is not on the
\* remote: the layer is unavailable, or the image was not found.
ReportsMissing ==
    /\ Pushed
    /\ plog[1].answer.err = NoErr
    /\ \/ /\ plog[1].name = "BatchCheckLayerAvailability"
          /\ plog[1].answer.layers = <<"UNAVAILABLE">>
       \/ /\ plog[1].name = "BatchGetImage"
          /\ plog[1].answer.images = <<>>
          /\ plog[1].answer.failures \in
                { <<"ImageNotFound">>, <<"ImageTagDoesNotMatchDigest">> }

\* The calls of one name among the client calls of the writers.
CallsNamed(name) == { i \in 1..Len(calls) : calls[i].name = name }

\* C16: when the existence check of Push reports the descriptor's digest as
\* available (layer) or existing (manifest), Push returns an error whose
\* cause is AlreadyExists, there is no writer, none of InitiateLayerUpload,
\* UploadLayerPart, CompleteLayerUpload and PutImage is ever called, and the
\* status record of the descriptor is updated.
C16_PushShortCircuitsOnExisting ==
    ReportsExisting =>
        /\ pret.err.cause = ErrAlreadyExists
        /\ pret.writer = "none"
        /\ mw.state = "none"
        /\ lw.state = "none"
        /\ calls = <<>>
        /\ status.updated

\* A Push of a manifest whose digest the registry has: it returned
\* AlreadyExists and the status is updated.
C16_Witness ==
    /\ ReportsExisting
    /\ plog[1].name = "BatchGetImage"
    /\ pdesc.mediaType = MediaTypeImageManifest
    /\ pret.err.cause = ErrAlreadyExists
    /\ status.updated

\* The writer Push returns for the media type.
WriterFor(mediaType) ==
    IF mediaType \in PushManifestTypes THEN "manifestWriter" ELSE "layerWriter"

\* The existence check of the Push was the one of the media type, with the
\* descriptor's media type as the one accepted type (manifest) or the
\* descriptor's digest as the one layer digest (layer).
CheckedByType ==
    IF pdesc.mediaType \in PushManifestTypes
    THEN /\ plog[1].name = "BatchGetImage"
         /\ plog[1].input.accepted = <<pdesc.mediaType>>
    ELSE /\ plog[1].name = "BatchCheckLayerAvailability"
         /\ plog[1].input.layerDigests = <<pdesc.digest>>

\* C17 as stated: when the content is not on the remote, Push makes one
\* existence check and returns the writer of the media type, after exactly
\* one InitiateLayerUpload for a layer writer, with a started status record.
C17_PushReturnsWriterByType ==
    ReportsMissing =>
        /\ CheckedByType
        /\ pret.err = NoErr
        /\ pret.writer = WriterFor(pdesc.mediaType)
        /\ status.started
        /\ pdesc.mediaType \in PushBlobTypes =>
              Cardinality(CallsNamed("InitiateLayerUpload")) = 1

\* C17 amended: when the content is not on the remote, Push makes one
\* existence check of the media type; for a manifest type it returns a
\* manifest writer with a started status record; for a layer or config type
\* it calls InitiateLayerUpload exactly once, first of all client calls, and
\* returns a layer writer with a started status record when that call
\* succeeded, and the call's error without a writer when it failed.
C17_PushReturnsWriterUnlessInitiateFails ==
    ReportsMissing =>
        /\ CheckedByType
        /\ pdesc.mediaType \in PushManifestTypes =>
              /\ pret = PushResult(NoErr, "manifestWriter")
              /\ mw.state # "none"
              /\ status.started
              /\ CallsNamed("InitiateLayerUpload") = {}
        /\ pdesc.mediaType \in PushBlobTypes =>
              /\ CallsNamed("InitiateLayerUpload") = {1}
              /\ mw.state = "none"
              /\ IF calls[1].answer = "nil"
                 THEN /\ pret = PushResult(NoErr, "layerWriter")
                      /\ lw.state = "open"
                      /\ status.started
                 ELSE /\ pret.err.cause = calls[1].answer
                      /\ pret.writer = "none"
                      /\ lw.state = "failed"

\* A Push of a layer the registry does not have: the layer writer is open
\* after its InitiateLayerUpload and the status is started.
C17_Witness ==
    /\ ReportsMissing
    /\ pdesc.mediaType = MediaTypeImageLayerGzip
    /\ pret = PushResult(NoErr, "layerWriter")
    /\ calls = << InitiateLayerUpload(NoErr) >>
    /\ status.started
    /\ ~status.updated

\* Commit of the writer Push returned has returned, and with what.
CommitReturned ==
    \/ pret.writer = "layerWriter" /\ caller = "done"
    \/ pret.writer = "manifestWriter" /\ mw.state = "committed"

\* Commit returned an error: the one of the failed uploader or of
\* CompleteLayerUpload for a layer writer, any but AlreadyExists for a
\* manifest writer.
CommitFailed ==
    IF pret.writer = "layerWriter"
    THEN proc = "failed" \/ ret # NoErr
    ELSE mw.err # NoErr /\ mw.err.cause # ErrAlreadyExists

\* C15: a writer Push opened has a started status record from the start,
\* and when its Commit has returned the record is updated and not failed
\* after a success or an already-exists answer, and failed and not updated
\* after a failure, also when the caller's context was cancelled.
C15_StatusConcludedAtCommit ==
    /\ pret.writer # "none" => status.started
    /\ CommitReturned =>
          IF CommitFailed
          THEN status.failed /\ ~status.updated
          ELSE status.updated /\ ~status.failed

\* A layer writer Push opened, the caller's context cancelled after Push
\* returned, a part uploaded, and Commit answered that the layer exists: it
\* returned nil and the status is updated.
C15_Witness ==
    /\ pret.writer = "layerWriter"
    /\ pctx
    /\ caller = "done"
    /\ ret = NoErr
    /\ Cardinality(CallsNamed("UploadLayerPart")) >= 1
    /\ calls[Len(calls)] = CompleteLayerUpload("LayerAlreadyExistsException")
    /\ status.started /\ status.updated /\ ~status.failed

\* ------------------------------------------- claims: foreign layers, dispatch

\* A Fetch of a foreign-layer descriptor is past its start.
ForeignFetched ==
    fpc \in {"returned", "panicked"} /\ fdesc.mediaType \in FetchForeignTypes

\* C21: a Fetch of a foreign layer makes no call on the registry client and
\* at most one HTTP request, to the first URL of the descriptor; when that
\* request is answered 404 it returns an error whose cause is NotFound, for
\* any other status above 299 the unexpected-status error, in both cases no
\* stream, and no other URL is asked.
C21_ForeignFirstURLOnly ==
    ForeignFetched =>
        /\ flog = <<>>
        /\ Len(fhttp) <= 1
        /\ \A i \in 1..Len(fhttp) :
              /\ fhttp[i].url = fdesc.urls[1]
              /\ fhttp[i].outcome.err = "" /\ fhttp[i].outcome.status > 299 =>
                    /\ fret.stream = "none"
                    /\ IF fhttp[i].outcome.status = 404
                       THEN fret.err.cause = ErrNotFound
                       ELSE fret.err = New("ecr.fetcher.layer.url: unexpected status code")

\* A foreign layer with two URLs whose first URL answers 404: NotFound, and
\* the second URL was not asked.
C21_Witness ==
    /\ ForeignFetched
    /\ fdesc.urls = <<"https://foreign.example/a", "https://foreign.example/b">>
    /\ fhttp = << HTTPRequest("https://foreign.example/a", 0, -1, TRUE,
                               HTTPOutcome("", 404)) >>
    /\ fret.err.cause = ErrNotFound
    /\ fret.stream = "none"

\* Fetch is past its switch.
Dispatched == fpc \in {"url", "returned", "panicked"}

\* The media types of manifests and indexes, of layers and configs, and of
\* foreign layers.
ManifestPolicyTypes ==
    { MediaTypeImageManifest, MediaTypeImageIndex, MediaTypeDockerSchema1Manifest,
      MediaTypeDockerSchema2Manifest, MediaTypeDockerSchema2ManifestList }

LayerPolicyTypes ==
    { MediaTypeDockerSchema2Layer, MediaTypeDockerSchema2LayerGzip,
      MediaTypeDockerSchema2Config, MediaTypeImageLayerGzip,
      MediaTypeImageLayer, MediaTypeImageConfig }

ForeignPolicyTypes ==
    { MediaTypeDockerSchema2LayerForeign, MediaTypeDockerSchema2LayerForeignGzip }

\* Some case of the switch of Fetch takes the descriptor.
FetchEnabled(desc) ==
    \/ ENABLED FetchUnimplemented(desc)
    \/ ENABLED (\E rep \in FetchReplies : fetchManifest(desc, rep))
    \/ ENABLED (\E out \in DownloadUrlReplies : fetchLayer(desc, out))
    \/ ENABLED (\E out \in HTTPOutcomes \cup {HTTPCanceled}, n \in 0..MaxPayload :
                   fetchForeignLayer(desc, out, n))

\* C22: Fetch takes every descriptor, and what it does is decided by the
\* media type: one image lookup and no HTTP request for a manifest or index
\* type, the download-URL lookup for a layer or config type, no registry
\* call for a foreign-layer type, and for every other media type, the empty
\* one included, the unimplemented error, no stream, no registry call and
\* no HTTP request.
C22_DispatchTotalByMediaType ==
    /\ fpc = "ready" => \A desc \in FetchDescriptors : FetchEnabled(desc)
    /\ Dispatched =>
          IF fdesc.mediaType \in ManifestPolicyTypes
          THEN /\ Len(flog) = 1 /\ flog[1].name = "BatchGetImage"
               /\ fhttp = <<>>
          ELSE IF fdesc.mediaType \in LayerPolicyTypes
          THEN Len(flog) = 1 /\ IsLookup(flog[1])
          ELSE IF fdesc.mediaType \in ForeignPolicyTypes
          THEN flog = <<>>
          ELSE /\ fret = FetchResult(unimplemented, "none", NoManifest)
               /\ flog = <<>>
               /\ fhttp = <<>>

\* A Fetch of a descriptor with the empty media type: unimplemented, and
\* nothing was called.
C22_Witness ==
    /\ Dispatched
    /\ fdesc.mediaType = ""
    /\ fdesc.digest = "sha256:d1"
    /\ fret = FetchResult(unimplemented, "none", NoManifest)
    /\ flog = <<>> /\ fhttp = <<>>

\* C30: a Fetch of a foreign-layer descriptor without URLs returns an error
\* to its caller, without an out-of-range access to the URL list and
\* without an HTTP request.
C30_ForeignWithoutURLsReturnsError ==
    (ForeignFetched /\ fdesc.urls = <<>>) =>
        /\ fpc = "returned"
        /\ fret.err # NoErr
        /\ fret.stream = "none"
        /\ fhttp = <<>>

\* ------------------------------------------------- claims: manifest lookups

\* The reply lists a failure that says the image is not there.
ListsNotFound(failures) ==
    \E i \in 1..Len(failures) :
        failures[i] \in {"ImageNotFound", "ImageTagDoesNotMatchDigest"}

\* C29: when the BatchGetImage of a manifest Fetch answered without error, a
\* reply that has not exactly one image gives no stream and the
\* image-not-found error if it lists a failure ImageNotFound or
\* ImageTagDoesNotMatchDigest, the invalid-reference error otherwise; a
\* reply with exactly one image gives the stream over that image's manifest.
C29_ExactlyOneImageOrError ==
    (ManifestFetched /\ flog[1].answer.err = NoErr) =>
        IF Len(flog[1].answer.images) = 1
        THEN fret = FetchResult(NoErr, "manifest", flog[1].answer.images[1].manifest)
        ELSE /\ fret.stream = "none"
             /\ fret.manifest = NoManifest
             /\ fret.err = IF ListsNotFound(flog[1].answer.failures)
                           THEN errImageNotFound
                           ELSE ErrInvalid

\* A reply with two images and a not-found failure: image not found, and no
\* stream.
C29_Witness ==
    /\ ManifestFetched
    /\ flog[1].answer.err = NoErr
    /\ Len(flog[1].answer.images) = 2
    /\ flog[1].answer.failures = <<"ImageTagDoesNotMatchDigest">>
    /\ fret = FetchResult(errImageNotFound, "none", NoManifest)

\* ------------------------------------------------------ claims: the sniffer

\* parseImageManifestMediaType returned for a body that parsed as JSON.
SniffedJSON == sniffedType # "unset" /\ probe.json

SniffedSingle ==
    /\ SniffedJSON
    /\ probe.mediaType = ""
    /\ probe.schemaVersion = 2
    /\ Len(probe.manifests) = 0

\* C25 as stated: for a schema 2 manifest with no child manifests and no
\* declared type, the sniffer returns the OCI image manifest type.
C25_NoChildrenIsOCIManifest ==
    SniffedSingle => sniffedType = MediaTypeImageManifest

\* C25 amended: for a schema 2 manifest with no child manifests and no
\* declared type, the sniffer returns the Docker schema 2 manifest type when
\* the config is a Docker schema 2 image config, and the OCI image manifest
\* type for every other config.
C25_NoChildrenByConfig ==
    SniffedSingle =>
        sniffedType = IF probe.config = MediaTypeDockerSchema2Config
                      THEN MediaTypeDockerSchema2Manifest
                      ELSE MediaTypeImageManifest

\* A schema 2 body with neither children nor a known config was sniffed as an
\* OCI image manifest.
C25_Witness ==
    /\ SniffedSingle
    /\ probe.config = ""
    /\ sniffedType = MediaTypeImageManifest

\* C26: for a schema 1 manifest without declared type, the sniffer returns
\* the signed type when the signatures member is non-empty, and the unsigned
\* type when it is absent or an empty list.
C26_Schema1BySignatures ==
    (SniffedJSON /\ probe.mediaType = "" /\ probe.schemaVersion = 1) =>
        sniffedType = IF probe.signatures \in {SignaturesAbsent, SignaturesEmptyList}
                      THEN mediaTypeDockerSchema1ManifestUnsigned
                      ELSE MediaTypeDockerSchema1Manifest

\* Some child of the list has the media type.
HasChild(manifests, mediaType) ==
    \E i \in 1..Len(manifests) : manifests[i] = mediaType

\* C27: for a schema 2 manifest without declared type, whose config names no
\* known image config, and that lists children, the sniffer returns the OCI index type when an OCI image manifest is among
\* the children and no Docker schema 2 manifest is, the Docker manifest list
\* type when a Docker schema 2 manifest is and no OCI image manifest is, and
\* the OCI index type when neither or both are: the order of the children
\* does not matter.
C27_ChildrenDecideWhateverOrder ==
    (/\ SniffedJSON
     /\ probe.mediaType = ""
     /\ probe.schemaVersion = 2
     /\ probe.config \notin {MediaTypeDockerSchema2Config, MediaTypeImageConfig}
     /\ Len(probe.manifests) > 0) =>
        sniffedType =
            IF /\ HasChild(probe.manifests, MediaTypeDockerSchema2Manifest)
               /\ ~HasChild(probe.manifests, MediaTypeImageManifest)
            THEN MediaTypeDockerSchema2ManifestList
            ELSE MediaTypeImageIndex

\* --------------------------------------------------- claims: references

PipeReturned == fret.stream = "pipe"

\* The write side of the pipe is closed in this step.
ClosesPipe == ~fclosed /\ fclosed'

====
